---- MODULE Spec2Model ----
(***************************************************************************)
(* Rental inventory backend (rental-system-backend): the store (items,     *)
(* customers, rentals, payments, maintenance records), the route handlers  *)
(* that mutate it, and the role-keyed redaction of their responses.        *)
(*                                                                         *)
(* Money is counted in whole currency units and time in half days (DAY is  *)
(* two ticks), so that a rental span need not be a whole number of days.   *)
(* Rows carry the columns the handlers read or write; free-text columns    *)
(* (names, notes, descriptions) are left out.                              *)
(***************************************************************************)
EXTENDS Integers, Sequences, FiniteSets, TLC

\* ------------------------------------------------------------------ bounds
MaxRentals == 2
MaxPayments == 2
MaxMaint == 1
MaxTime == 1
MaxQty == 2
MaxAmount == 2
\* Cap on an item's quantity, which repeated returns can raise without limit.
MaxStock == 3
\* How many overlapping requests are accepted in all.
MaxRequests == 4
\* The longest rental span requested, in ticks, where spans of every length
\* are tried.
MaxSpan == 13

\* How many expenses are recorded in all.
MaxExpenses == 1
\* The last tick of the clock of the books.
MaxFinTime == 4
\* The days of a month of the model's calendar.
MonthDays == 2

\* How many users sign in.
MaxUsers == 3

\* One day, in ticks: the divisor (1000 * 60 * 60 * 24) of the day count.
DAY == 2

ItemIds == {"i1"}
CustomerIds == {"c1"}
CategoryIds == {"cat1"}
Roles == {"ADMIN", "STAFF"}
Procs == {"p1", "p2"}
Rates == {1, 2}
Amounts == 0..MaxAmount

ItemStatus == {"AVAILABLE", "RENTED", "MAINTENANCE", "RETIRED"}
RentalStatus == {"PENDING", "ACTIVE", "COMPLETED", "CANCELLED", "OVERDUE"}
PaymentStatus == {"UNPAID", "PARTIAL", "PAID", "REFUNDED"}
MaintenanceStatus == {"PENDING", "IN_PROGRESS", "COMPLETED"}

VARIABLES
  items,        \* Item rows: id -> [id, categoryId, status, dailyRate, quantity]
  customers,    \* Customer rows: id -> [id]
  categories,   \* Category rows: id -> [id]
  rentals,      \* Rental rows, in creation order; a rental's id is its index
  payments,     \* Payment rows: a set of [id, rentalId, amount, paymentDate]
  maintenances, \* Maintenance rows: a set of [id, itemId, status, cost, endDate]
  nextId,       \* the next payment, maintenance and overlapping-request number
  now,          \* the clock read by new Date()
  reqs,         \* requests between their read and their write: proc -> locals
  response,     \* the last response sent
  initQty,      \* history: each item's quantity when it was stocked
  expenses,     \* Expense rows: a set of [id, amount, expenseDate]
  authStore,    \* the browser's auth store: [user, token], each <<>> when null
  page          \* the browser's page: [route, view]

vars == <<items, customers, categories, rentals, payments, maintenances, nextId, now, reqs,
          response, initQty, expenses, authStore, page>>

store == <<items, customers, categories, rentals, payments, maintenances, expenses, nextId>>

\* ----------------------------------------------------------------- helpers
Idle == [op |-> "idle"]
NoResponse == [endpoint |-> "none", role |-> "none", code |-> 0, body |-> <<>>]

Reply(endpoint, role, code, body) ==
  [endpoint |-> endpoint, role |-> role, code |-> code, body |-> body]

ErrorBody(msg) == [error |-> msg]

Floor(a, b) == a \div b

\* Math.ceil(a / b) for a >= 0, b > 0
Ceil(a, b) == (a + b - 1) \div b

RECURSIVE SumAmounts(_)
SumAmounts(S) ==
  IF S = {} THEN 0
  ELSE LET p == CHOOSE x \in S : TRUE IN p.amount + SumAmounts(S \ {p})

RentalIds == 1..Len(rentals)
PaymentsOf(rid) == {p \in payments : p.rentalId = rid}
PaymentById(pid) == {p \in payments : p.id = pid}
MaintById(mid) == {m \in maintenances : m.id = mid}

\* --------------------------------------------------------------- redaction
FinancialFields ==
  {"dailyRate", "numberOfDays", "subtotal", "deposit", "discount",
   "totalAmount", "amountPaid", "amountDue", "paymentStatus", "payments"}

\* The inline copies in the customer and dashboard routes leave payments out.
InlineFinancialFields == FinancialFields \ {"payments"}

Without(rec, fields) == [f \in (DOMAIN rec) \ fields |-> rec[f]]

filterFinancialDataNoPayments(rental) == Without(rental, InlineFinancialFields)
filterFinancialData(rental) == Without(rental, FinancialFields)

filterCost(maintenance) == Without(maintenance, {"cost"})

inlineFilter(rental) == Without(rental, InlineFinancialFields)

\* The role switch each rental route applies to what it sends.
RentalView(role, rental) ==
  IF role = "STAFF" THEN filterFinancialData(rental) ELSE rental

MaintenanceView(role, maintenance) ==
  IF role = "STAFF" THEN filterCost(maintenance) ELSE maintenance

\* include: { customer: true, item: true }
WithCustomer(r) == r @@ [customer |-> customers[r.customerId]]
WithItemNoRate(r) == r @@ [item |-> Without(items[r.itemId], {"dailyRate"})]
WithItem(r) == r @@ [item |-> items[r.itemId]]
WithCustomerItem(r) == WithItem(WithCustomer(r))

\* ------------------------------------------------------------- derivations
\* Calculate rental financials
RentalFinancials(dailyRate, start, end, deposit, discount, amountPaid) ==
  LET numberOfDays == Ceil(end - start, DAY)
      subtotal == dailyRate * numberOfDays
      totalAmount == subtotal + deposit - discount
  IN [numberOfDays |-> numberOfDays, subtotal |-> subtotal,
      totalAmount |-> totalAmount, amountDue |-> totalAmount - amountPaid]

Classify(newAmountPaid, totalAmount) ==
  IF newAmountPaid >= totalAmount THEN "PAID"
  ELSE IF newAmountPaid > 0 THEN "PARTIAL" ELSE "UNPAID"

\* -------------------------------------------------------------------- init
\* The store as seeded: every item AVAILABLE with some stock, no rental yet.
InitWith(quantities, rates) ==
  /\ \E q \in quantities, rate \in rates :
       /\ items = [i \in ItemIds |->
                    [id |-> i, categoryId |-> "cat1", status |-> "AVAILABLE",
                     dailyRate |-> rate, quantity |-> q]]
       /\ initQty = [i \in ItemIds |-> q]
  /\ customers = [c \in CustomerIds |-> [id |-> c]]
  /\ categories = [c \in CategoryIds |-> [id |-> c]]
  /\ rentals = <<>>
  /\ payments = {}
  /\ maintenances = {}
  /\ expenses = {}
  /\ authStore = [user |-> <<>>, token |-> <<>>]
  /\ page = [route |-> "/login", view |-> "login"]
  /\ nextId = [payment |-> 1, maintenance |-> 1, request |-> 1, expense |-> 1]
  /\ now = 0
  /\ reqs = [p \in Procs |-> Idle]
  /\ response = NoResponse

\* ------------------------------------------------------------ create rental
\* The row tx.rental.create inserts.
NewRental(customerId, itemId, start, end, deposit, discount, dailyRate) ==
  LET fin == RentalFinancials(dailyRate, start, end, deposit, discount, 0)
  IN [id |-> Len(rentals) + 1, customerId |-> customerId, itemId |-> itemId,
      startDate |-> start, endDate |-> end, returnDate |-> <<>>,
      status |-> "PENDING", dailyRate |-> dailyRate,
      numberOfDays |-> fin.numberOfDays, subtotal |-> fin.subtotal,
      deposit |-> deposit, discount |-> discount,
      totalAmount |-> fin.totalAmount, amountPaid |-> 0,
      amountDue |-> fin.amountDue, paymentStatus |-> "UNPAID"]

\* What the handler answers before it opens its transaction; "ok" when every
\* check passes.
CreateRentalCheck(customerId, itemId, start, end) ==
  IF customerId = "" \/ itemId = ""
    THEN <<400, "Customer, item, start date, and end date are required">>
  ELSE IF end <= start THEN <<400, "End date must be after start date">>
  ELSE IF itemId \notin DOMAIN items THEN <<404, "Item not found">>
  ELSE IF items[itemId].status # "AVAILABLE" \/ items[itemId].quantity < 1
    THEN <<400, "Item is not available for rental">>
  ELSE IF customerId \notin DOMAIN customers THEN <<404, "Customer not found">>
  ELSE <<201, "ok">>

\* tx.item.update of createRental: RENTED and one unit less, whatever is left.
ItemAfterRentalWhenLast(item) ==
  [item EXCEPT !.status = IF item.quantity - 1 = 0 THEN "RENTED" ELSE item.status,
               !.quantity = @ - 1]

ItemAfterRentalUntouched(item) == item

ItemAfterRental(item) == [item EXCEPT !.status = "RENTED", !.quantity = @ - 1]

\* The transaction: insert the rental, mark the item RENTED and take one unit.
\* A rental on a row that is gone violates its foreign key and aborts.
CreateRentalTx(role, customerId, itemId, start, end, deposit, discount, dailyRate) ==
  IF itemId \in DOMAIN items /\ customerId \in DOMAIN customers
  THEN LET newRental == NewRental(customerId, itemId, start, end, deposit,
                                  discount, dailyRate)
       IN /\ rentals' = Append(rentals, newRental)
          /\ items' = [items EXCEPT ![itemId] = ItemAfterRental(@)]
          /\ response' = Reply("POST /rentals", role, 201,
                               RentalView(role, WithCustomerItem(newRental)))
  ELSE /\ UNCHANGED <<rentals, items>>
       /\ response' = Reply("POST /rentals", role, 500,
                            ErrorBody("Failed to create rental"))

CreateRental(role, customerId, itemId, start, end, deposit, discount) ==
  /\ Len(rentals) < MaxRentals
  /\ LET check == CreateRentalCheck(customerId, itemId, start, end)
     IN IF check[1] # 201
        THEN /\ response' = Reply("POST /rentals", role, check[1], ErrorBody(check[2]))
             /\ UNCHANGED <<rentals, items>>
        ELSE CreateRentalTx(role, customerId, itemId, start, end, deposit,
                            discount, items[itemId].dailyRate)
  /\ UNCHANGED <<customers, categories, payments, maintenances, nextId, now, reqs, initQty, expenses, authStore, page>>

\* ------------------------------------------------------------ update rental
\* An optional request parameter: <<>> when not supplied, <<v>> when supplied.
Opt(S) == {<<>>} \cup {<<x>> : x \in S}

UpdateRentalStart(existingRental, startDate) ==
  IF startDate # <<>> THEN startDate[1] ELSE existingRental.startDate

UpdateRentalEnd(existingRental, endDate) ==
  IF endDate # <<>> THEN endDate[1] ELSE existingRental.endDate

\* No date check at all.
UpdateRentalNeverRejected(existingRental, startDate, endDate) == FALSE

\* The dates are recomputed only when one is supplied, and then must be ordered.
UpdateRentalRejected(existingRental, startDate, endDate) ==
  /\ (startDate # <<>> \/ endDate # <<>>)
  /\ UpdateRentalEnd(existingRental, endDate)
       <= UpdateRentalStart(existingRental, startDate)

\* The recomputation with the item's current rate in place of the rental's.
UpdatedRentalLiveRate(row, existingRental, startDate, endDate, status) ==
  LET start == UpdateRentalStart(existingRental, startDate)
      end == UpdateRentalEnd(existingRental, endDate)
      fin == RentalFinancials(items[existingRental.itemId].dailyRate, start, end,
                              existingRental.deposit, existingRental.discount,
                              existingRental.amountPaid)
      dated == IF startDate # <<>> \/ endDate # <<>>
               THEN [row EXCEPT !.startDate = start, !.endDate = end,
                                !.numberOfDays = fin.numberOfDays,
                                !.subtotal = fin.subtotal,
                                !.totalAmount = fin.totalAmount,
                                !.amountDue = fin.amountDue]
               ELSE row
  IN IF status # <<>> THEN [dated EXCEPT !.status = status[1]] ELSE dated

\* The row after prisma.rental.update: `row` is the row as stored when the
\* write runs, `existingRental` the row the handler read. Only the columns in
\* `data` are written. The status is written whatever the row's status is.
UpdatedRental(row, existingRental, startDate, endDate, status) ==
  LET start == UpdateRentalStart(existingRental, startDate)
      end == UpdateRentalEnd(existingRental, endDate)
      fin == RentalFinancials(existingRental.dailyRate, start, end,
                              existingRental.deposit, existingRental.discount,
                              existingRental.amountPaid)
      dated == IF startDate # <<>> \/ endDate # <<>>
               THEN [row EXCEPT !.startDate = start, !.endDate = end,
                                !.numberOfDays = fin.numberOfDays,
                                !.subtotal = fin.subtotal,
                                !.totalAmount = fin.totalAmount,
                                !.amountDue = fin.amountDue]
               ELSE row
  IN IF status # <<>> THEN [dated EXCEPT !.status = status[1]] ELSE dated

UpdateRentalWrite(role, id, existingRental, startDate, endDate, status) ==
  LET rental == UpdatedRental(rentals[id], existingRental, startDate, endDate, status)
  IN /\ rentals' = [rentals EXCEPT ![id] = rental]
     /\ response' = Reply("PUT /rentals/:id", role, 200,
                          RentalView(role, WithCustomerItem(rental)))

\* An update that gives the unit back when it cancels the rental.
UpdateRentalReleasing(role, id, startDate, endDate, status) ==
  /\ IF id \notin RentalIds
     THEN /\ response' = Reply("PUT /rentals/:id", role, 404, ErrorBody("Rental not found"))
          /\ UNCHANGED <<rentals, items>>
     ELSE IF UpdateRentalRejected(rentals[id], startDate, endDate)
     THEN /\ response' = Reply("PUT /rentals/:id", role, 400,
                               ErrorBody("End date must be after start date"))
          /\ UNCHANGED <<rentals, items>>
     ELSE /\ UpdateRentalWrite(role, id, rentals[id], startDate, endDate, status)
          /\ IF status = <<"CANCELLED">>
             THEN items' = [items EXCEPT ![rentals[id].itemId].status = "AVAILABLE",
                                         ![rentals[id].itemId].quantity = @ + 1]
             ELSE UNCHANGED items
  /\ UNCHANGED <<customers, categories, payments, maintenances, nextId, now, reqs, initQty,
                 expenses, authStore, page>>

UpdateRental(role, id, startDate, endDate, status) ==
  /\ IF id \notin RentalIds
     THEN /\ response' = Reply("PUT /rentals/:id", role, 404, ErrorBody("Rental not found"))
          /\ UNCHANGED rentals
     ELSE IF UpdateRentalRejected(rentals[id], startDate, endDate)
     THEN /\ response' = Reply("PUT /rentals/:id", role, 400,
                               ErrorBody("End date must be after start date"))
          /\ UNCHANGED rentals
     ELSE UpdateRentalWrite(role, id, rentals[id], startDate, endDate, status)
  /\ UNCHANGED <<items, customers, categories, payments, maintenances, nextId, now, reqs, initQty, expenses, authStore, page>>

\* -------------------------------------------------------------- return item
\* tx.item.update of returnItem: AVAILABLE and one unit more.
ItemAfterReturn(item) == [item EXCEPT !.status = "AVAILABLE", !.quantity = @ + 1]

\* The transaction's writes: the rental is closed and the unit released.
ReturnItemTx(role, id, existingRental) ==
  LET updatedRental == [rentals[id] EXCEPT !.returnDate = <<now>>,
                                           !.status = "COMPLETED"]
      itemId == existingRental.itemId
  IN /\ rentals' = [rentals EXCEPT ![id] = updatedRental]
     /\ items' = [items EXCEPT ![itemId] = ItemAfterReturn(@)]
     /\ response' = Reply("PUT /rentals/:id/return", role, 200,
          RentalView(role, updatedRental @@
                           [customer |-> customers[updatedRental.customerId],
                            item |-> items[itemId]]))

\* What the transaction throws after reading the rental, "ok" when nothing.
ReturnItemCheck(id) ==
  IF id \notin RentalIds THEN "Rental not found"
  ELSE IF rentals[id].status = "COMPLETED" THEN "Rental already completed"
  ELSE "ok"

ReturnItem(role, id) ==
  /\ ReturnItemCheck(id) = "ok" => items[rentals[id].itemId].quantity < MaxStock
  /\ IF ReturnItemCheck(id) # "ok"
     THEN /\ response' = Reply("PUT /rentals/:id/return", role, 500,
                               ErrorBody(ReturnItemCheck(id)))
          /\ UNCHANGED <<rentals, items>>
     ELSE ReturnItemTx(role, id, rentals[id])
  /\ UNCHANGED <<customers, categories, payments, maintenances, nextId, now, reqs, initQty, expenses, authStore, page>>

\* ------------------------------------------------------------ overdue sweep
\* updateMany: ACTIVE rentals whose endDate is before today become OVERDUE.
SweptEscalating(rs, today) ==
  [k \in 1..Len(rs) |->
     IF rs[k].endDate < today /\ rs[k].status = "ACTIVE"
     THEN [rs[k] EXCEPT !.status = "OVERDUE"]
     ELSE IF rs[k].endDate < today /\ rs[k].status = "PENDING"
     THEN [rs[k] EXCEPT !.status = "ACTIVE"]
     ELSE rs[k]]

SweptUpToToday(rs, today) ==
  [k \in 1..Len(rs) |->
     IF rs[k].status = "ACTIVE" /\ rs[k].endDate <= today
     THEN [rs[k] EXCEPT !.status = "OVERDUE"] ELSE rs[k]]

Swept(rs, today) ==
  [k \in 1..Len(rs) |->
     IF rs[k].status = "ACTIVE" /\ rs[k].endDate < today
     THEN [rs[k] EXCEPT !.status = "OVERDUE"] ELSE rs[k]]

GetOverdueRentals(role) ==
  LET swept == Swept(rentals, now)
      found == {k \in 1..Len(swept) : swept[k].status = "OVERDUE"}
  IN /\ rentals' = swept
     /\ response' = Reply("GET /rentals/status/overdue", role, 200,
                          {RentalView(role, WithCustomerItem(swept[k])) : k \in found})
     /\ UNCHANGED <<items, customers, categories, payments, maintenances, nextId, now, reqs, initQty, expenses, authStore, page>>

\* -------------------------------------------------------------------- clock
Tick ==
  /\ now < MaxTime
  /\ now' = now + 1
  /\ UNCHANGED <<items, customers, categories, rentals, payments, maintenances, nextId, reqs,
                 response, initQty, expenses, authStore, page>>

\* ----------------------------------------------------------- record payment
RecordPaymentCheckNoCeiling(role, rentalId, amount) ==
  IF role # "ADMIN" THEN <<403, "Admin access required">>
  ELSE IF amount = 0 THEN <<400, "Rental, amount, and payment method are required">>
  ELSE IF rentalId \notin RentalIds THEN <<404, "Rental not found">>
  ELSE IF amount <= 0 THEN <<400, "Payment amount must be greater than zero">>
  ELSE <<201, "ok">>

\* What the handler answers before it opens its transaction, from the rental
\* row it read; "ok" when every check passes.
\* The checks of recordPayment without the admin gate.
RecordPaymentCheckAnyRole(role, rentalId, amount) ==
  IF amount = 0 THEN <<400, "Rental, amount, and payment method are required">>
  ELSE IF rentalId \notin RentalIds THEN <<404, "Rental not found">>
  ELSE IF amount <= 0 THEN <<400, "Payment amount must be greater than zero">>
  ELSE IF amount > rentals[rentalId].amountDue
    THEN <<400, "Payment amount cannot exceed amount due">>
  ELSE <<201, "ok">>

RecordPaymentCheck(role, rentalId, amount) ==
  IF role # "ADMIN" THEN <<403, "Admin access required">>
  ELSE IF amount = 0 THEN <<400, "Rental, amount, and payment method are required">>
  ELSE IF rentalId \notin RentalIds THEN <<404, "Rental not found">>
  ELSE IF amount <= 0 THEN <<400, "Payment amount must be greater than zero">>
  ELSE IF amount > rentals[rentalId].amountDue
    THEN <<400, "Payment amount cannot exceed amount due">>
  ELSE <<201, "ok">>

\* The rental row after a payment change of `delta`, computed from the row the
\* handler read (`rental`) and written over the stored row (`row`).
RentalAfterPaymentOverwrites(row, rental, delta) ==
  [row EXCEPT !.amountPaid = delta,
              !.amountDue = rental.totalAmount - delta,
              !.paymentStatus = Classify(delta, rental.totalAmount)]

RentalAfterPayment(row, rental, delta) ==
  LET newAmountPaid == rental.amountPaid + delta
      newAmountDue == rental.totalAmount - newAmountPaid
  IN [row EXCEPT !.amountPaid = newAmountPaid,
                 !.amountDue = newAmountDue,
                 !.paymentStatus = Classify(newAmountPaid, rental.totalAmount)]

\* The transaction: insert the payment, write the rental's amounts.
RecordPaymentTx(role, rentalId, amount, rental) ==
  LET newPayment == [id |-> nextId.payment, rentalId |-> rentalId,
                     amount |-> amount, paymentDate |-> now]
  IN /\ payments' = payments \cup {newPayment}
     /\ nextId' = [nextId EXCEPT !.payment = @ + 1]
     /\ rentals' = [rentals EXCEPT
                      ![rentalId] = RentalAfterPayment(@, rental, amount)]
     /\ response' = Reply("POST /finances/payments", role, 201,
                          newPayment @@ [rental |-> WithCustomerItem(rentals[rentalId])])

RecordPayment(role, rentalId, amount) ==
  /\ nextId.payment <= MaxPayments
  /\ LET check == RecordPaymentCheck(role, rentalId, amount)
     IN IF check[1] # 201
        THEN /\ response' = Reply("POST /finances/payments", role, check[1],
                                  ErrorBody(check[2]))
             /\ UNCHANGED <<rentals, payments, nextId>>
        ELSE RecordPaymentTx(role, rentalId, amount, rentals[rentalId])
  /\ UNCHANGED <<items, customers, categories, maintenances, now, reqs, initQty, expenses, authStore, page>>

\* ----------------------------------------------------------- delete payment
\* The transaction's writes, from the payment and rental it read (`existing`
\* with its rental `rental`). Deleting a row that is gone aborts it.
DeletePaymentTx(role, existing, rental) ==
  IF existing \in payments
  THEN /\ payments' = payments \ {existing}
       /\ rentals' = [rentals EXCEPT
                        ![rental.id] = RentalAfterPayment(@, rental, 0 - existing.amount)]
       /\ response' = Reply("DELETE /finances/payments/:id", role, 200,
                            existing @@ [rental |-> rental])
  ELSE /\ UNCHANGED <<payments, rentals>>
       /\ response' = Reply("DELETE /finances/payments/:id", role, 500,
                            ErrorBody("Failed to delete payment"))

DeletePayment(role, id) ==
  /\ IF role # "ADMIN"
     THEN /\ response' = Reply("DELETE /finances/payments/:id", role, 403,
                               ErrorBody("Admin access required"))
          /\ UNCHANGED <<rentals, payments>>
     ELSE IF PaymentById(id) = {}
     THEN /\ response' = Reply("DELETE /finances/payments/:id", role, 500,
                               ErrorBody("Payment not found"))
          /\ UNCHANGED <<rentals, payments>>
     ELSE LET existing == CHOOSE p \in payments : p.id = id
          IN DeletePaymentTx(role, existing, rentals[existing.rentalId])
  /\ UNCHANGED <<items, customers, categories, maintenances, nextId, now, reqs, initQty, expenses, authStore, page>>

\* -------------------------------------------------------------- maintenance
\* include: { item: true }
WithItemOf(m) == m @@ [item |-> items[m.itemId]]

CreateMaintenance(role, itemId, cost) ==
  /\ nextId.maintenance <= MaxMaint
  /\ IF itemId = ""
     THEN /\ response' = Reply("POST /maintenance", role, 400,
                               ErrorBody("Item and description are required"))
          /\ UNCHANGED <<maintenances, items, nextId>>
     ELSE IF itemId \notin DOMAIN items
     THEN /\ response' = Reply("POST /maintenance", role, 404, ErrorBody("Item not found"))
          /\ UNCHANGED <<maintenances, items, nextId>>
     ELSE LET newMaintenance ==
                [id |-> nextId.maintenance, itemId |-> itemId, status |-> "PENDING",
                 cost |-> IF role = "ADMIN" THEN cost ELSE 0, endDate |-> <<>>]
          IN /\ maintenances' = maintenances \cup {newMaintenance}
             /\ nextId' = [nextId EXCEPT !.maintenance = @ + 1]
             /\ items' = [items EXCEPT ![itemId].status = "MAINTENANCE"]
             /\ response' = Reply("POST /maintenance", role, 201,
                                  MaintenanceView(role, WithItemOf(newMaintenance)))
  /\ UNCHANGED <<customers, categories, rentals, payments, now, reqs, initQty, expenses, authStore, page>>

\* The cost written whoever asks.
UpdatedMaintenanceAnyRole(role, m, status, cost) ==
  LET s == IF status # <<>> THEN [m EXCEPT !.status = status[1]] ELSE m
  IN IF cost # <<>> THEN [s EXCEPT !.cost = cost[1]] ELSE s

\* Only an admin's cost is written.
UpdatedMaintenance(role, m, status, cost) ==
  LET s == IF status # <<>> THEN [m EXCEPT !.status = status[1]] ELSE m
  IN IF cost # <<>> /\ role = "ADMIN" THEN [s EXCEPT !.cost = cost[1]] ELSE s

UpdateMaintenance(role, id, status, cost) ==
  /\ IF MaintById(id) = {}
     THEN /\ response' = Reply("PUT /maintenance/:id", role, 404,
                               ErrorBody("Maintenance record not found"))
          /\ UNCHANGED maintenances
     ELSE LET m == CHOOSE x \in maintenances : x.id = id
              maintenance == UpdatedMaintenance(role, m, status, cost)
          IN /\ maintenances' = (maintenances \ {m}) \cup {maintenance}
             /\ response' = Reply("PUT /maintenance/:id", role, 200,
                                  MaintenanceView(role, WithItemOf(maintenance)))
  /\ UNCHANGED <<items, customers, categories, rentals, payments, nextId, now, reqs, initQty, expenses, authStore, page>>

\* The check without the test of the record's status.
CompleteMaintenanceCheckAbsentOnly(id) ==
  IF MaintById(id) = {} THEN "Maintenance record not found" ELSE "ok"

\* What the transaction throws after reading the record, "ok" when nothing.
CompleteMaintenanceCheck(id) ==
  IF MaintById(id) = {} THEN "Maintenance record not found"
  ELSE IF (CHOOSE x \in maintenances : x.id = id).status = "COMPLETED"
    THEN "Maintenance already completed"
  ELSE "ok"

CompleteMaintenance(role, id) ==
  /\ IF CompleteMaintenanceCheck(id) # "ok"
     THEN /\ response' = Reply("PUT /maintenance/:id/complete", role, 500,
                               ErrorBody(CompleteMaintenanceCheck(id)))
          /\ UNCHANGED <<maintenances, items>>
     ELSE LET existing == CHOOSE x \in maintenances : x.id = id
              updated == [existing EXCEPT !.status = "COMPLETED", !.endDate = <<now>>]
          IN /\ maintenances' = (maintenances \ {existing}) \cup {updated}
             /\ items' = [items EXCEPT ![existing.itemId].status = "AVAILABLE"]
             /\ response' = Reply("PUT /maintenance/:id/complete", role, 200,
                                  MaintenanceView(role, WithItemOf(updated)))
  /\ UNCHANGED <<customers, categories, rentals, payments, nextId, now, reqs, initQty, expenses, authStore, page>>

DeleteMaintenance(role, id) ==
  /\ IF MaintById(id) = {}
     THEN /\ response' = Reply("DELETE /maintenance/:id", role, 404,
                               ErrorBody("Maintenance record not found"))
          /\ UNCHANGED maintenances
     ELSE /\ maintenances' = {m \in maintenances : m.id # id}
          /\ response' = Reply("DELETE /maintenance/:id", role, 200,
                               [message |-> "Maintenance record deleted successfully"])
  /\ UNCHANGED <<items, customers, categories, rentals, payments, nextId, now, reqs, initQty, expenses, authStore, page>>

\* ---------------------------------------------------- sequential lifecycle
\* Requests served one at a time: rentals through their life, the overdue
\* sweep, maintenance, the clock. Staff may call every one of these routes.
Spans == {<<-1, 0>>, <<0, 0>>}

Init == InitWith(1..MaxQty, {2})

Next ==
  \/ \E c \in CustomerIds, i \in ItemIds, span \in Spans :
       CreateRental("STAFF", c, i, span[1], span[2], 0, 0)
  \/ \E id \in 1..MaxRentals, st \in RentalStatus :
       UpdateRental("STAFF", id, <<>>, <<>>, <<st>>)
  \/ \E id \in 1..MaxRentals : ReturnItem("STAFF", id)
  \/ GetOverdueRentals("STAFF")
  \/ \E i \in ItemIds, cost \in {1} : CreateMaintenance("STAFF", i, cost)
  \/ \E id \in 1..MaxMaint, st \in MaintenanceStatus :
       UpdateMaintenance("STAFF", id, <<st>>, <<>>)
  \/ \E id \in 1..MaxMaint : CompleteMaintenance("STAFF", id)
  \/ \E id \in 1..MaxMaint : DeleteMaintenance("STAFF", id)
  \/ Tick

Spec == Init /\ [][Next]_vars

\* ------------------------------------------------------ sequential payments
\* Requests served one at a time: rentals created with a deposit and a
\* discount, their dates edited, payments recorded and deleted by an admin.
PaySpans == {<<0, 1>>, <<0, 2>>}
PayEnds == {<<>>, <<0>>, <<2>>, <<3>>}
Deposits == {0, 1}
Discounts == {0, 1}

InitPay == InitWith({MaxQty}, Rates)

NextPay ==
  \/ \E c \in CustomerIds, i \in ItemIds, span \in PaySpans,
        dep \in Deposits, disc \in Discounts :
       CreateRental("ADMIN", c, i, span[1], span[2], dep, disc)
  \/ \E id \in 1..MaxRentals, e \in PayEnds :
       UpdateRental("ADMIN", id, <<>>, e, <<>>)
  \/ \E id \in 1..MaxRentals : ReturnItem("ADMIN", id)
  \/ \E role \in Roles, id \in 1..MaxRentals, amount \in Amounts \cup {-1} :
       RecordPayment(role, id, amount)
  \/ \E role \in Roles, id \in 1..MaxPayments : DeletePayment(role, id)

SpecPay == InitPay /\ [][NextPay]_vars

\* ------------------------------------------------------ overlapping requests
\* Each handler runs to its next await: the reads and checks that precede its
\* write are one step, the write (a transaction, or a single update) another.
\* Between the two, other requests run. reqs[p] holds what the handler keeps
\* in its local variables across the await.
Finish(p) == reqs' = [reqs EXCEPT ![p] = Idle]

\* POST /rentals: dates, then findUnique(item) and the availability check.
CreateRentalFindItem(p, role, customerId, itemId, start, end, deposit, discount) ==
  /\ reqs[p] = Idle
  /\ nextId.request <= MaxRequests
  /\ nextId' = [nextId EXCEPT !.request = @ + 1]
  /\ Len(rentals) < MaxRentals
  /\ IF customerId = "" \/ itemId = ""
     THEN /\ response' = Reply("POST /rentals", role, 400,
            ErrorBody("Customer, item, start date, and end date are required"))
          /\ UNCHANGED reqs
     ELSE IF end <= start
     THEN /\ response' = Reply("POST /rentals", role, 400,
                               ErrorBody("End date must be after start date"))
          /\ UNCHANGED reqs
     ELSE IF itemId \notin DOMAIN items
     THEN /\ response' = Reply("POST /rentals", role, 404, ErrorBody("Item not found"))
          /\ UNCHANGED reqs
     ELSE IF items[itemId].status # "AVAILABLE" \/ items[itemId].quantity < 1
     THEN /\ response' = Reply("POST /rentals", role, 400,
                               ErrorBody("Item is not available for rental"))
          /\ UNCHANGED reqs
     ELSE /\ reqs' = [reqs EXCEPT ![p] =
                        [op |-> "createRental", pc |-> "customer", role |-> role,
                         customerId |-> customerId, itemId |-> itemId,
                         start |-> start, end |-> end, deposit |-> deposit,
                         discount |-> discount, item |-> items[itemId]]]
          /\ UNCHANGED response
  /\ UNCHANGED <<items, customers, categories, rentals, payments, maintenances, now, initQty, expenses, authStore, page>>

\* POST /rentals: findUnique(customer).
CreateRentalFindCustomer(p) ==
  /\ reqs[p].op = "createRental" /\ reqs[p].pc = "customer"
  /\ IF reqs[p].customerId \notin DOMAIN customers
     THEN /\ response' = Reply("POST /rentals", reqs[p].role, 404,
                               ErrorBody("Customer not found"))
          /\ Finish(p)
     ELSE /\ reqs' = [reqs EXCEPT ![p].pc = "tx"]
          /\ UNCHANGED response
  /\ UNCHANGED <<items, customers, categories, rentals, payments, maintenances, nextId, now, initQty, expenses, authStore, page>>

\* POST /rentals: the transaction, with the rate of the item row read before.
CreateRentalCommit(p) ==
  /\ reqs[p].op = "createRental" /\ reqs[p].pc = "tx"
  /\ Len(rentals) < MaxRentals
  /\ CreateRentalTx(reqs[p].role, reqs[p].customerId, reqs[p].itemId, reqs[p].start,
                    reqs[p].end, reqs[p].deposit, reqs[p].discount,
                    reqs[p].item.dailyRate)
  /\ Finish(p)
  /\ UNCHANGED <<customers, categories, payments, maintenances, nextId, now, initQty, expenses, authStore, page>>

\* PUT /rentals/:id: findUnique(rental) and the date check.
UpdateRentalFind(p, role, id, startDate, endDate, status) ==
  /\ reqs[p] = Idle
  /\ nextId.request <= MaxRequests
  /\ nextId' = [nextId EXCEPT !.request = @ + 1]
  /\ IF id \notin RentalIds
     THEN /\ response' = Reply("PUT /rentals/:id", role, 404, ErrorBody("Rental not found"))
          /\ UNCHANGED reqs
     ELSE IF UpdateRentalRejected(rentals[id], startDate, endDate)
     THEN /\ response' = Reply("PUT /rentals/:id", role, 400,
                               ErrorBody("End date must be after start date"))
          /\ UNCHANGED reqs
     ELSE /\ reqs' = [reqs EXCEPT ![p] =
                        [op |-> "updateRental", role |-> role, id |-> id,
                         startDate |-> startDate, endDate |-> endDate,
                         status |-> status, existingRental |-> rentals[id]]]
          /\ UNCHANGED response
  /\ UNCHANGED <<items, customers, categories, rentals, payments, maintenances, now, initQty, expenses, authStore, page>>

\* PUT /rentals/:id: prisma.rental.update.
UpdateRentalCommit(p) ==
  /\ reqs[p].op = "updateRental"
  /\ UpdateRentalWrite(reqs[p].role, reqs[p].id, reqs[p].existingRental,
                       reqs[p].startDate, reqs[p].endDate, reqs[p].status)
  /\ Finish(p)
  /\ UNCHANGED <<items, customers, categories, payments, maintenances, nextId, now, initQty, expenses, authStore, page>>

\* POST /finances/payments: findUnique(rental) and the amount checks.
RecordPaymentFind(p, role, rentalId, amount) ==
  /\ reqs[p] = Idle
  /\ nextId.request <= MaxRequests
  /\ nextId' = [nextId EXCEPT !.request = @ + 1]
  /\ nextId.payment <= MaxPayments
  /\ LET check == RecordPaymentCheck(role, rentalId, amount)
     IN IF check[1] # 201
        THEN /\ response' = Reply("POST /finances/payments", role, check[1],
                                  ErrorBody(check[2]))
             /\ UNCHANGED reqs
        ELSE /\ reqs' = [reqs EXCEPT ![p] =
                           [op |-> "recordPayment", role |-> role,
                            rentalId |-> rentalId, amount |-> amount,
                            rental |-> rentals[rentalId]]]
             /\ UNCHANGED response
  /\ UNCHANGED <<items, customers, categories, rentals, payments, maintenances, now, initQty, expenses, authStore, page>>

\* POST /finances/payments: the transaction, computed from the rental read before.
RecordPaymentCommit(p) ==
  /\ reqs[p].op = "recordPayment"
  /\ nextId.payment <= MaxPayments
  /\ RecordPaymentTx(reqs[p].role, reqs[p].rentalId, reqs[p].amount, reqs[p].rental)
  /\ Finish(p)
  /\ UNCHANGED <<items, customers, categories, maintenances, now, initQty, expenses, authStore, page>>

\* DELETE /finances/payments/:id: the transaction's findUnique(payment, rental).
DeletePaymentFind(p, role, id) ==
  /\ reqs[p] = Idle
  /\ nextId.request <= MaxRequests
  /\ nextId' = [nextId EXCEPT !.request = @ + 1]
  /\ IF role # "ADMIN"
     THEN /\ response' = Reply("DELETE /finances/payments/:id", role, 403,
                               ErrorBody("Admin access required"))
          /\ UNCHANGED reqs
     ELSE IF PaymentById(id) = {}
     THEN /\ response' = Reply("DELETE /finances/payments/:id", role, 500,
                               ErrorBody("Payment not found"))
          /\ UNCHANGED reqs
     ELSE LET existing == CHOOSE x \in payments : x.id = id
          IN /\ reqs' = [reqs EXCEPT ![p] =
                           [op |-> "deletePayment", role |-> role,
                            existing |-> existing,
                            rental |-> rentals[existing.rentalId]]]
             /\ UNCHANGED response
  /\ UNCHANGED <<items, customers, categories, rentals, payments, maintenances, now, initQty, expenses, authStore, page>>

\* DELETE /finances/payments/:id: the transaction's delete and update.
DeletePaymentCommit(p) ==
  /\ reqs[p].op = "deletePayment"
  /\ DeletePaymentTx(reqs[p].role, reqs[p].existing, reqs[p].rental)
  /\ Finish(p)
  /\ UNCHANGED <<items, customers, categories, maintenances, nextId, now, initQty, expenses, authStore, page>>

\* PUT /rentals/:id/return: the transaction's findUnique(rental) and checks.
ReturnItemFind(p, role, id) ==
  /\ reqs[p] = Idle
  /\ nextId.request <= MaxRequests
  /\ nextId' = [nextId EXCEPT !.request = @ + 1]
  /\ IF ReturnItemCheck(id) # "ok"
     THEN /\ response' = Reply("PUT /rentals/:id/return", role, 500,
                               ErrorBody(ReturnItemCheck(id)))
          /\ UNCHANGED reqs
     ELSE /\ reqs' = [reqs EXCEPT ![p] =
                        [op |-> "returnItem", role |-> role, id |-> id,
                         existingRental |-> rentals[id]]]
          /\ UNCHANGED response
  /\ UNCHANGED <<items, customers, categories, rentals, payments, maintenances, now, initQty, expenses, authStore, page>>

\* PUT /rentals/:id/return: the transaction's two updates.
ReturnItemCommit(p) ==
  /\ reqs[p].op = "returnItem"
  /\ items[reqs[p].existingRental.itemId].quantity < MaxStock
  /\ ReturnItemTx(reqs[p].role, reqs[p].id, reqs[p].existingRental)
  /\ Finish(p)
  /\ UNCHANGED <<customers, categories, payments, maintenances, nextId, now, initQty, expenses, authStore, page>>

ConcEnds == {<<>>, <<2>>}

NextConc ==
  \/ \E p \in Procs, c \in CustomerIds, i \in ItemIds :
       CreateRentalFindItem(p, "ADMIN", c, i, -1, 0, 0, 0)
  \/ \E p \in Procs : CreateRentalFindCustomer(p)
  \/ \E p \in Procs : CreateRentalCommit(p)
  \/ \E p \in Procs, id \in 1..MaxRentals, e \in ConcEnds, st \in {<<>>, <<"ACTIVE">>} :
       UpdateRentalFind(p, "ADMIN", id, <<>>, e, st)
  \/ \E p \in Procs : UpdateRentalCommit(p)
  \/ \E p \in Procs, id \in 1..MaxRentals, amount \in 1..MaxAmount :
       RecordPaymentFind(p, "ADMIN", id, amount)
  \/ \E p \in Procs : RecordPaymentCommit(p)
  \/ \E p \in Procs, id \in 1..MaxPayments : DeletePaymentFind(p, "ADMIN", id)
  \/ \E p \in Procs : DeletePaymentCommit(p)
  \/ \E p \in Procs, id \in 1..MaxRentals : ReturnItemFind(p, "ADMIN", id)
  \/ \E p \in Procs : ReturnItemCommit(p)

SpecConc == Init /\ [][NextConc]_vars

\* ------------------------------------------------------------------ deletes
\* The handlers count the rows that forbid the delete, then delete; a row
\* still referenced (ON DELETE RESTRICT) makes the delete throw. The response
\* is recorded under the path requested, id included.
OpenStatusActiveOnly == {"ACTIVE"}
OpenStatus == {"PENDING", "ACTIVE"}

Remove(rows, id) == [k \in (DOMAIN rows) \ {id} |-> rows[k]]

\* The delete of a customer with the handler's guard alone, as if no foreign
\* key stood behind it.
DeleteCustomerGuardOnly(role, id) ==
  LET endpoint == "DELETE /customers/" \o id
      activeRentals == {k \in RentalIds : rentals[k].customerId = id
                                          /\ rentals[k].status \in OpenStatus}
  IN /\ IF activeRentals # {}
        THEN /\ response' = Reply(endpoint, role, 400,
                                  ErrorBody("Cannot delete customer with active rentals"))
             /\ UNCHANGED customers
        ELSE IF id \notin DOMAIN customers
        THEN /\ response' = Reply(endpoint, role, 404, ErrorBody("Customer not found"))
             /\ UNCHANGED customers
        ELSE /\ customers' = Remove(customers, id)
             /\ response' = Reply(endpoint, role, 200,
                                  [message |-> "Customer deleted successfully"])
     /\ UNCHANGED <<items, categories, rentals, payments, maintenances, nextId, now, reqs,
                    initQty, expenses, authStore, page>>

\* DELETE /customers/:id
DeleteCustomer(role, id) ==
  LET endpoint == "DELETE /customers/" \o id
      activeRentals == {k \in RentalIds : rentals[k].customerId = id
                                          /\ rentals[k].status \in OpenStatus}
      referenced == \E k \in RentalIds : rentals[k].customerId = id
  IN /\ IF activeRentals # {}
        THEN /\ response' = Reply(endpoint, role, 400,
                                  ErrorBody("Cannot delete customer with active rentals"))
             /\ UNCHANGED customers
        ELSE IF id \notin DOMAIN customers
        THEN /\ response' = Reply(endpoint, role, 404, ErrorBody("Customer not found"))
             /\ UNCHANGED customers
        ELSE IF referenced
        THEN /\ response' = Reply(endpoint, role, 500, ErrorBody("Failed to delete customer"))
             /\ UNCHANGED customers
        ELSE /\ customers' = Remove(customers, id)
             /\ response' = Reply(endpoint, role, 200,
                                  [message |-> "Customer deleted successfully"])
     /\ UNCHANGED <<items, categories, rentals, payments, maintenances, nextId, now, reqs,
                    initQty, expenses, authStore, page>>

\* DELETE /items/:id
DeleteItem(role, id) ==
  LET endpoint == "DELETE /items/" \o id
      activeRentals == {k \in RentalIds : rentals[k].itemId = id
                                          /\ rentals[k].status \in OpenStatus}
      referenced == \/ \E k \in RentalIds : rentals[k].itemId = id
                    \/ \E m \in maintenances : m.itemId = id
  IN /\ IF activeRentals # {}
        THEN /\ response' = Reply(endpoint, role, 400,
                                  ErrorBody("Cannot delete item with active rentals"))
             /\ UNCHANGED items
        ELSE IF id \notin DOMAIN items
        THEN /\ response' = Reply(endpoint, role, 404, ErrorBody("Item not found"))
             /\ UNCHANGED items
        ELSE IF referenced
        THEN /\ response' = Reply(endpoint, role, 500, ErrorBody("Failed to delete item"))
             /\ UNCHANGED items
        ELSE /\ items' = Remove(items, id)
             /\ response' = Reply(endpoint, role, 200,
                                  [message |-> "Item deleted successfully"])
     /\ UNCHANGED <<customers, categories, rentals, payments, maintenances, nextId, now, reqs,
                    initQty, expenses, authStore, page>>

\* DELETE /categories/:id
DeleteCategory(role, id) ==
  LET endpoint == "DELETE /categories/" \o id
      itemCount == Cardinality({i \in DOMAIN items : items[i].categoryId = id})
  IN /\ IF itemCount > 0
        THEN /\ response' = Reply(endpoint, role, 400,
                                  ErrorBody("Cannot delete category with item(s)"))
             /\ UNCHANGED categories
        ELSE IF id \notin DOMAIN categories
        THEN /\ response' = Reply(endpoint, role, 404, ErrorBody("Category not found"))
             /\ UNCHANGED categories
        ELSE /\ categories' = Remove(categories, id)
             /\ response' = Reply(endpoint, role, 200,
                                  [message |-> "Category deleted successfully"])
     /\ UNCHANGED <<items, customers, rentals, payments, maintenances, nextId, now, reqs,
                    initQty, expenses, authStore, page>>

\* ------------------------------------------------- creations and deletions
\* createRental requests that overlap one another and the deletes, with ids
\* that are missing ("") or name no row, and dates in either order; rentals
\* are also cancelled, returned and put under maintenance, so that deletes
\* meet rows in every condition.
RequestCustomerIds == CustomerIds \cup {"c2", ""}
RequestItemIds == ItemIds \cup {"i2"}
RequestCategoryIds == CategoryIds \cup {"cat2"}

NextRef ==
  \/ \E p \in Procs, c \in RequestCustomerIds, i \in RequestItemIds, span \in Spans :
       CreateRentalFindItem(p, "STAFF", c, i, span[1], span[2], 0, 0)
  \/ \E p \in Procs : CreateRentalFindCustomer(p)
  \/ \E p \in Procs : CreateRentalCommit(p)
  \/ \E id \in 1..MaxRentals, st \in {"ACTIVE", "CANCELLED"} :
       UpdateRental("STAFF", id, <<>>, <<>>, <<st>>)
  \/ \E id \in 1..MaxRentals : ReturnItem("STAFF", id)
  \/ \E i \in ItemIds : CreateMaintenance("STAFF", i, 0)
  \/ \E id \in 1..MaxMaint : DeleteMaintenance("STAFF", id)
  \/ \E c \in RequestCustomerIds \ {""} : DeleteCustomer("STAFF", c)
  \/ \E i \in RequestItemIds : DeleteItem("STAFF", i)
  \/ \E c \in RequestCategoryIds : DeleteCategory("STAFF", c)

SpecRef == Init /\ [][NextRef]_vars

\* ------------------------------------------------------------ references
\* Rentals created by overlapping requests, returned, cancelled and paid, and
\* maintenance records, while customers and items are deleted.
NextInteg ==
  \/ \E p \in Procs, c \in RequestCustomerIds \ {""}, i \in RequestItemIds :
       CreateRentalFindItem(p, "ADMIN", c, i, -1, 0, 0, 0)
  \/ \E p \in Procs : CreateRentalFindCustomer(p)
  \/ \E p \in Procs : CreateRentalCommit(p)
  \/ \E id \in 1..MaxRentals : UpdateRental("ADMIN", id, <<>>, <<>>, <<"CANCELLED">>)
  \/ \E id \in 1..MaxRentals : ReturnItem("ADMIN", id)
  \/ \E id \in 1..MaxRentals : RecordPayment("ADMIN", id, 2)
  \/ \E i \in ItemIds : CreateMaintenance("ADMIN", i, 0)
  \/ \E c \in RequestCustomerIds \ {""} : DeleteCustomer("ADMIN", c)
  \/ \E i \in RequestItemIds : DeleteItem("ADMIN", i)

SpecInteg == Init /\ [][NextInteg]_vars

\* ------------------------------------------------------ creation amounts
\* Rentals created, one request at a time, for every rate, span, deposit and
\* discount of a small range that holds the documented example (rate 15, six
\* days, deposit 50, discount 10), and returned so that the item is free again.
CalcRates == {0, 1, 15}
CalcStarts == {0, 1}
CalcDeposits == {0, 50}
CalcDiscounts == {0, 10}

InitCalc == InitWith({MaxQty}, CalcRates)

NextCalc ==
  \/ \E c \in CustomerIds, i \in ItemIds, start \in CalcStarts, span \in 0..MaxSpan,
        dep \in CalcDeposits, disc \in CalcDiscounts :
       CreateRental("ADMIN", c, i, start, start + span, dep, disc)
  \/ \E id \in 1..MaxRentals : ReturnItem("ADMIN", id)

SpecCalc == InitCalc /\ [][NextCalc]_vars

\* ----------------------------------------------------------- read endpoints
\* Every list fits in one page: the stores here hold fewer rows than `limit`
\* (10) or `take: 10`. A list body is the set of its rows.
ReadOnly == UNCHANGED <<items, customers, categories, rentals, payments, maintenances,
                        nextId, now, reqs, initQty, expenses, authStore, page>>

\* include: { category: true }
WithCategory(item) == item @@ [category |-> categories[item.categoryId]]

\* GET /rentals
GetRentals(role) ==
  /\ response' = Reply("GET /rentals", role, 200,
       [rentals |-> {RentalView(role, WithCustomerItem(rentals[id])) : id \in RentalIds},
        total |-> Len(rentals)])
  /\ ReadOnly

\* GET /rentals/:id; payments are included for an admin only.
GetRental(role, id) ==
  /\ IF id \notin RentalIds
     THEN response' = Reply("GET /rentals/:id", role, 404, ErrorBody("Rental not found"))
     ELSE LET rental == IF role = "ADMIN"
                        THEN WithCustomerItem(rentals[id]) @@ [payments |-> PaymentsOf(id)]
                        ELSE WithCustomerItem(rentals[id])
          IN response' = Reply("GET /rentals/:id", role, 200, RentalView(role, rental))
  /\ ReadOnly

\* GET /rentals/status/active
GetActiveRentals(role) ==
  /\ response' = Reply("GET /rentals/status/active", role, 200,
       {RentalView(role, WithCustomerItem(rentals[id])) :
          id \in {k \in RentalIds : rentals[k].status = "ACTIVE"}})
  /\ ReadOnly

\* GET /customers/:id, with the customer's rentals and their items
GetCustomer(role, id) ==
  /\ IF id \notin DOMAIN customers
     THEN response' = Reply("GET /customers/:id", role, 404, ErrorBody("Customer not found"))
     ELSE LET own == {WithItem(rentals[k]) : k \in {j \in RentalIds : rentals[j].customerId = id}}
          IN response' = Reply("GET /customers/:id", role, 200,
               customers[id] @@
               [rentals |-> IF role = "STAFF" THEN {inlineFilter(r) : r \in own} ELSE own])
  /\ ReadOnly

\* GET /customers/:id/rentals
GetCustomerRentals(role, id) ==
  /\ LET own == {WithItem(rentals[k]) : k \in {j \in RentalIds : rentals[j].customerId = id}}
     IN response' = Reply("GET /customers/:id/rentals", role, 200,
          IF role = "STAFF" THEN {inlineFilter(r) : r \in own} ELSE own)
  /\ ReadOnly

\* GET /dashboard/activity
GetActivity(role) ==
  /\ LET recentRentals == {WithCustomerItem(rentals[k]) : k \in RentalIds}
     IN response' = Reply("GET /dashboard/activity", role, 200,
          IF role = "STAFF" THEN {inlineFilter(r) : r \in recentRentals}
          ELSE recentRentals)
  /\ ReadOnly

\* GET /items
GetItems(role) ==
  /\ response' = Reply("GET /items", role, 200,
       [items |-> {WithCategory(items[i]) : i \in DOMAIN items},
        total |-> Cardinality(DOMAIN items)])
  /\ ReadOnly

\* GET /items/:id, with the item's rentals (and their customers) and its
\* maintenance records, sent as read.
GetItem(role, id) ==
  /\ IF id \notin DOMAIN items
     THEN response' = Reply("GET /items/:id", role, 404, ErrorBody("Item not found"))
     ELSE response' = Reply("GET /items/:id", role, 200,
            WithCategory(items[id]) @@
            [rentals |-> {WithCustomer(rentals[k]) :
                            k \in {j \in RentalIds : rentals[j].itemId = id}},
             maintenances |-> {m \in maintenances : m.itemId = id}])
  /\ ReadOnly

\* GET /categories/:id, with its items
GetCategory(role, id) ==
  /\ IF id \notin DOMAIN categories
     THEN response' = Reply("GET /categories/:id", role, 404, ErrorBody("Category not found"))
     ELSE response' = Reply("GET /categories/:id", role, 200,
            categories[id] @@
            [items |-> {items[i] : i \in {j \in DOMAIN items : items[j].categoryId = id}}])
  /\ ReadOnly

\* GET /maintenance
GetMaintenances(role) ==
  /\ response' = Reply("GET /maintenance", role, 200,
       [maintenances |-> {MaintenanceView(role, WithItemOf(m)) : m \in maintenances},
        total |-> Cardinality(maintenances)])
  /\ ReadOnly

\* GET /maintenance/:id
GetMaintenance(role, id) ==
  /\ IF MaintById(id) = {}
     THEN response' = Reply("GET /maintenance/:id", role, 404,
                            ErrorBody("Maintenance record not found"))
     ELSE response' = Reply("GET /maintenance/:id", role, 200,
            MaintenanceView(role, WithItemOf(CHOOSE m \in maintenances : m.id = id)))
  /\ ReadOnly

\* GET /finances/payments, behind requireAdmin
GetPayments(role) ==
  /\ IF role # "ADMIN"
     THEN response' = Reply("GET /finances/payments", role, 403,
                            ErrorBody("Admin access required"))
     ELSE response' = Reply("GET /finances/payments", role, 200,
            [payments |-> {p @@ [rental |-> WithCustomerItem(rentals[p.rentalId])] :
                             p \in payments},
             total |-> Cardinality(payments)])
  /\ ReadOnly

\* PUT /items/:id: only the supplied columns are written; status and
\* dailyRate are skipped when falsy.
UpdatedItem(existingItem, status, dailyRate, quantity) ==
  LET s == IF status # <<>> THEN [existingItem EXCEPT !.status = status[1]]
           ELSE existingItem
      d == IF dailyRate # <<>> /\ dailyRate[1] # 0
           THEN [s EXCEPT !.dailyRate = dailyRate[1]] ELSE s
  IN IF quantity # <<>> THEN [d EXCEPT !.quantity = quantity[1]] ELSE d

UpdateItem(role, id, status, dailyRate, quantity) ==
  /\ IF id \notin DOMAIN items
     THEN /\ response' = Reply("PUT /items/:id", role, 404, ErrorBody("Item not found"))
          /\ UNCHANGED items
     ELSE LET item == UpdatedItem(items[id], status, dailyRate, quantity)
          IN /\ items' = [items EXCEPT ![id] = item]
             /\ response' = Reply("PUT /items/:id", role, 200, WithCategory(item))
  /\ UNCHANGED <<customers, categories, rentals, payments, maintenances, nextId, now, reqs,
                 initQty, expenses, authStore, page>>

\* -------------------------------------------------------- the API by role
\* Requests served one at a time, each by an admin or by a staff user: one
\* rental (already past its end date), its payment, one maintenance record,
\* and every endpoint that reads them back.
MaxApiRentals == 1

InitApi == InitWith({1}, {2})

NextApi ==
  \/ \E role \in Roles, c \in CustomerIds, i \in ItemIds :
       Len(rentals) < MaxApiRentals /\ CreateRental(role, c, i, -2, -1, 1, 0)
  \/ \E role \in Roles, id \in 1..MaxApiRentals :
       UpdateRental(role, id, <<>>, <<>>, <<"ACTIVE">>)
  \/ \E role \in Roles, id \in 1..MaxApiRentals : ReturnItem(role, id)
  \/ \E role \in Roles : GetOverdueRentals(role)
  \/ \E role \in Roles, id \in 1..MaxApiRentals : RecordPayment(role, id, 1)
  \/ \E role \in Roles, i \in ItemIds : CreateMaintenance(role, i, 1)
  \/ \E role \in Roles, id \in 1..MaxMaint : CompleteMaintenance(role, id)
  \/ \E role \in Roles, i \in ItemIds, rate \in Rates : UpdateItem(role, i, <<>>, <<rate>>, <<>>)
  \/ \E role \in Roles : GetRentals(role)
  \/ \E role \in Roles, id \in 1..MaxApiRentals : GetRental(role, id)
  \/ \E role \in Roles : GetActiveRentals(role)
  \/ \E role \in Roles, c \in CustomerIds : GetCustomer(role, c)
  \/ \E role \in Roles, c \in CustomerIds : GetCustomerRentals(role, c)
  \/ \E role \in Roles : GetActivity(role)
  \/ \E role \in Roles : GetItems(role)
  \/ \E role \in Roles, i \in ItemIds : GetItem(role, i)
  \/ \E role \in Roles, c \in CategoryIds : GetCategory(role, c)
  \/ \E role \in Roles : GetMaintenances(role)
  \/ \E role \in Roles, id \in 1..MaxMaint : GetMaintenance(role, id)
  \/ \E role \in Roles : GetPayments(role)

SpecApi == InitApi /\ [][NextApi]_vars

\* ------------------------------------------------------- edits of a rental
\* Requests served one at a time by an admin: rentals are created, paid, their
\* dates and status edited, and the rate of the item changed in between.
EditSpans == {<<0, 2>>}
EditStarts == {<<>>, <<0>>, <<1>>}
EditEnds == {<<>>, <<1>>, <<3>>}
EditRates == {<<0>>, <<1>>, <<3>>}

InitEdit == InitWith({MaxQty}, Rates)

NextEdit ==
  \/ \E c \in CustomerIds, i \in ItemIds, span \in EditSpans, dep \in Deposits :
       CreateRental("ADMIN", c, i, span[1], span[2], dep, 0)
  \/ \E id \in 1..MaxRentals, s \in EditStarts, e \in EditEnds, st \in Opt({"ACTIVE"}) :
       UpdateRental("ADMIN", id, s, e, st)
  \/ \E id \in 1..MaxRentals, amount \in 1..MaxAmount :
       RecordPayment("ADMIN", id, amount)
  \/ \E i \in ItemIds, rate \in EditRates :
       UpdateItem("ADMIN", i, <<>>, rate, <<>>)

SpecEdit == InitEdit /\ [][NextEdit]_vars

\* -------------------------------------------------------- maintenance desk
\* Requests served one at a time by an admin or a staff user: maintenance
\* records opened, edited, completed and deleted on an item that is rented out
\* and returned in between.
MaintCosts == {0, 1, 2}
MaintItemIds == ItemIds \cup {"i2", ""}

InitMaint == InitWith(1..MaxQty, {2})

NextMaint ==
  \/ \E role \in Roles, i \in MaintItemIds, cost \in MaintCosts :
       CreateMaintenance(role, i, cost)
  \/ \E role \in Roles, id \in 1..MaxMaint + 1, st \in Opt(MaintenanceStatus),
        cost \in Opt(MaintCosts) :
       UpdateMaintenance(role, id, st, cost)
  \/ \E role \in Roles, id \in 1..MaxMaint + 1 : CompleteMaintenance(role, id)
  \/ \E role \in Roles, id \in 1..MaxMaint + 1 : DeleteMaintenance(role, id)
  \/ \E c \in CustomerIds, i \in ItemIds : CreateRental("STAFF", c, i, 0, 2, 0, 0)
  \/ \E id \in 1..MaxRentals : ReturnItem("STAFF", id)

SpecMaint == InitMaint /\ [][NextMaint]_vars

\* ----------------------------------------------------------------- expenses
ExpenseById(eid) == {e \in expenses : e.id = eid}

Forbidden(endpoint, role) == Reply(endpoint, role, 403, ErrorBody("Admin access required"))

FinanceFrame ==
  UNCHANGED <<items, customers, categories, rentals, payments, maintenances, now, reqs,
              initQty, authStore, page>>

\* POST /finances/expenses: the amount is required, so 0 is refused; the date
\* defaults to now.
CreateExpense(role, amount, expenseDate) ==
  /\ nextId.expense <= MaxExpenses
  /\ IF role # "ADMIN"
     THEN /\ response' = Forbidden("POST /finances/expenses", role)
          /\ UNCHANGED <<expenses, nextId>>
     ELSE IF amount = 0
     THEN /\ response' = Reply("POST /finances/expenses", role, 400,
                               ErrorBody("Description, amount, and category are required"))
          /\ UNCHANGED <<expenses, nextId>>
     ELSE LET expense == [id |-> nextId.expense, amount |-> amount,
                          expenseDate |-> IF expenseDate # <<>> THEN expenseDate[1]
                                          ELSE now]
          IN /\ expenses' = expenses \cup {expense}
             /\ nextId' = [nextId EXCEPT !.expense = @ + 1]
             /\ response' = Reply("POST /finances/expenses", role, 201, expense)
  /\ FinanceFrame

\* PUT /finances/expenses/:id: a falsy amount is not written.
UpdateExpense(role, id, amount) ==
  /\ IF role # "ADMIN"
     THEN /\ response' = Forbidden("PUT /finances/expenses/:id", role)
          /\ UNCHANGED expenses
     ELSE IF ExpenseById(id) = {}
     THEN /\ response' = Reply("PUT /finances/expenses/:id", role, 404,
                               ErrorBody("Expense not found"))
          /\ UNCHANGED expenses
     ELSE LET e == CHOOSE x \in expenses : x.id = id
              expense == IF amount # <<>> /\ amount[1] # 0
                         THEN [e EXCEPT !.amount = amount[1]] ELSE e
          IN /\ expenses' = (expenses \ {e}) \cup {expense}
             /\ response' = Reply("PUT /finances/expenses/:id", role, 200, expense)
  /\ FinanceFrame /\ UNCHANGED nextId

DeleteExpense(role, id) ==
  /\ IF role # "ADMIN"
     THEN /\ response' = Forbidden("DELETE /finances/expenses/:id", role)
          /\ UNCHANGED expenses
     ELSE IF ExpenseById(id) = {}
     THEN /\ response' = Reply("DELETE /finances/expenses/:id", role, 404,
                               ErrorBody("Expense not found"))
          /\ UNCHANGED expenses
     ELSE /\ expenses' = {e \in expenses : e.id # id}
          /\ response' = Reply("DELETE /finances/expenses/:id", role, 200,
                               [message |-> "Expense deleted successfully"])
  /\ FinanceFrame /\ UNCHANGED nextId

GetExpenses(role) ==
  /\ IF role # "ADMIN"
     THEN response' = Forbidden("GET /finances/expenses", role)
     ELSE response' = Reply("GET /finances/expenses", role, 200,
                            [expenses |-> expenses, total |-> Cardinality(expenses)])
  /\ ReadOnly

GetExpense(role, id) ==
  /\ IF role # "ADMIN"
     THEN response' = Forbidden("GET /finances/expenses/:id", role)
     ELSE IF ExpenseById(id) = {}
     THEN response' = Reply("GET /finances/expenses/:id", role, 404,
                            ErrorBody("Expense not found"))
     ELSE response' = Reply("GET /finances/expenses/:id", role, 200,
                            CHOOSE x \in expenses : x.id = id)
  /\ ReadOnly

GetPayment(role, id) ==
  /\ IF role # "ADMIN"
     THEN response' = Forbidden("GET /finances/payments/:id", role)
     ELSE IF PaymentById(id) = {}
     THEN response' = Reply("GET /finances/payments/:id", role, 404,
                            ErrorBody("Payment not found"))
     ELSE LET p == CHOOSE x \in payments : x.id = id
          IN response' = Reply("GET /finances/payments/:id", role, 200,
                               p @@ [rental |-> WithCustomerItem(rentals[p.rentalId])])
  /\ ReadOnly

\* GET /finances/revenue/period: amount and date of every payment.
GetRevenueByPeriod(role) ==
  /\ IF role # "ADMIN"
     THEN response' = Forbidden("GET /finances/revenue/period", role)
     ELSE response' = Reply("GET /finances/revenue/period", role, 200,
                            {[id |-> p.id, amount |-> p.amount,
                              paymentDate |-> p.paymentDate] : p \in payments})
  /\ ReadOnly

\* ------------------------------------------------------------------ summary
\* { gte: startDate, lte: endDate }, each bound only when supplied
InPeriod(date, startDate, endDate) ==
  /\ startDate # <<>> => date >= startDate[1]
  /\ endDate # <<>> => date <= endDate[1]

RECURSIVE SumAmountDue(_)
SumAmountDue(S) ==
  IF S = {} THEN 0
  ELSE LET k == CHOOSE x \in S : TRUE IN rentals[k].amountDue + SumAmountDue(S \ {k})

\* _sum: { amountDue } over the rentals that are UNPAID or PARTIAL
OutstandingPayments ==
  SumAmountDue({k \in RentalIds : rentals[k].paymentStatus \in {"UNPAID", "PARTIAL"}})

\* The quotient cut off after its second decimal.
Truncated(a, b) == IF a >= 0 THEN a \div b ELSE 0 - ((0 - a) \div b)

\* a / b to the nearest integer, a half going away from zero, for b > 0
Rounded(a, b) ==
  IF a >= 0 THEN (2 * a + b) \div (2 * b) ELSE 0 - ((b - 2 * a) \div (2 * b))

\* ((netProfit / totalRevenue) * 100).toFixed(2), in hundredths of a percent;
\* the number 0 when there is no revenue.
ProfitMargin(netProfit, totalRevenue) ==
  IF totalRevenue > 0
  THEN [fixed |-> TRUE, hundredths |-> Rounded(netProfit * 10000, totalRevenue)]
  ELSE [fixed |-> FALSE, hundredths |-> 0]

DateText(d) == IF d = <<>> THEN "" ELSE ToString(d[1])

SummaryPath(startDate, endDate) ==
  "GET /finances/summary?startDate=" \o DateText(startDate)
    \o "&endDate=" \o DateText(endDate)

GetSummary(role, startDate, endDate) ==
  /\ IF role # "ADMIN"
     THEN response' = Forbidden(SummaryPath(startDate, endDate), role)
     ELSE LET totalRevenue ==
                SumAmounts({p \in payments : InPeriod(p.paymentDate, startDate, endDate)})
              totalExpenses ==
                SumAmounts({e \in expenses : InPeriod(e.expenseDate, startDate, endDate)})
              netProfit == totalRevenue - totalExpenses
          IN response' = Reply(SummaryPath(startDate, endDate), role, 200,
                 [totalRevenue |-> totalRevenue, totalExpenses |-> totalExpenses,
                  netProfit |-> netProfit, outstandingPayments |-> OutstandingPayments,
                  profitMargin |-> ProfitMargin(netProfit, totalRevenue)])
  /\ ReadOnly

\* ---------------------------------------------------------------- dashboard
\* The calendar: months of MonthDays days. new Date(year, month, 1) is the
\* midnight that opens the month of `t`.
MonthTicks == MonthDays * DAY
FirstDayOfMonth(t) == (t \div MonthTicks) * MonthTicks

\* The last instant of the month.
EndOfMonth(t) == FirstDayOfMonth(t) + MonthTicks - 1

\* new Date(year, month + 1, 0): the midnight that opens the month's last day.
LastDayOfMonth(t) == FirstDayOfMonth(t) + MonthTicks - DAY

GetAdminDashboard(role) ==
  /\ IF role # "ADMIN"
     THEN response' = Forbidden("GET /dashboard/admin", role)
     ELSE LET firstDayOfMonth == <<FirstDayOfMonth(now)>>
              lastDayOfMonth == <<LastDayOfMonth(now)>>
              monthlyRevenue ==
                SumAmounts({p \in payments :
                              InPeriod(p.paymentDate, firstDayOfMonth, lastDayOfMonth)})
              monthlyExpensesTotal ==
                SumAmounts({e \in expenses :
                              InPeriod(e.expenseDate, firstDayOfMonth, lastDayOfMonth)})
          IN response' = Reply("GET /dashboard/admin", role, 200,
                 [totalItems |-> Cardinality(DOMAIN items),
                  availableItems |->
                    Cardinality({i \in DOMAIN items : items[i].status = "AVAILABLE"}),
                  activeRentals |->
                    Cardinality({k \in RentalIds : rentals[k].status = "ACTIVE"}),
                  maintenanceItems |->
                    Cardinality({i \in DOMAIN items : items[i].status = "MAINTENANCE"}),
                  monthlyRevenue |-> monthlyRevenue,
                  monthlyExpenses |-> monthlyExpensesTotal,
                  netProfit |-> monthlyRevenue - monthlyExpensesTotal,
                  outstandingPayments |-> OutstandingPayments])
  /\ ReadOnly

\* The clock of the books, which runs into the next month.
Pass ==
  /\ now < MaxFinTime
  /\ now' = now + 1
  /\ UNCHANGED <<items, customers, categories, rentals, payments, maintenances, nextId, reqs,
                 response, initQty, expenses, authStore, page>>

\* ---------------------------------------------------------------- the books
\* Requests served one at a time by an admin: one rental, its payments,
\* expenses, and the summary and dashboard that report on them, while the
\* clock runs into the next month.
FinPeriods == {<<<<>>, <<>>>>, <<<<1>>, <<>>>>, <<<<2>>, <<3>>>>}
ExpenseAmounts == {0, 1, 2}

InitFin == InitWith({1}, {2})

NextFin ==
  \/ \E c \in CustomerIds, i \in ItemIds :
       CreateRental("ADMIN", c, i, 0, 2 * DAY, 0, 0)
  \/ \E id \in 1..MaxRentals, amount \in 1..MaxAmount :
       RecordPayment("ADMIN", id, amount)
  \/ \E id \in 1..MaxPayments : DeletePayment("ADMIN", id)
  \/ \E amount \in ExpenseAmounts, d \in Opt({0}) : CreateExpense("ADMIN", amount, d)
  \/ \E id \in 1..MaxExpenses : DeleteExpense("ADMIN", id)
  \/ \E period \in FinPeriods : GetSummary("ADMIN", period[1], period[2])
  \/ GetAdminDashboard("ADMIN")
  \/ Pass

SpecFin == InitFin /\ [][NextFin]_vars

\* ------------------------------------------------------- the books by role
\* Every finance endpoint and the admin dashboard, called by an admin or by a
\* staff user, who also creates, edits and returns the rental.
InitFinRole == InitWith({1}, {2})

NextFinRole ==
  \/ \E role \in Roles, c \in CustomerIds, i \in ItemIds :
       CreateRental(role, c, i, 0, DAY, 0, 0)
  \/ \E id \in 1..MaxRentals :
       UpdateRental("STAFF", id, <<>>, <<2 * DAY>>, <<"ACTIVE">>)
  \/ \E id \in 1..MaxRentals : ReturnItem("STAFF", id)
  \/ \E role \in Roles, id \in 1..MaxRentals, amount \in 1..MaxAmount :
       RecordPayment(role, id, amount)
  \/ \E role \in Roles, id \in 1..MaxPayments : DeletePayment(role, id)
  \/ \E role \in Roles : GetPayments(role)
  \/ \E role \in Roles, id \in 1..MaxPayments : GetPayment(role, id)
  \/ \E role \in Roles, amount \in ExpenseAmounts : CreateExpense(role, amount, <<>>)
  \/ \E role \in Roles, id \in 1..MaxExpenses, amount \in Opt({0, 1}) :
       UpdateExpense(role, id, amount)
  \/ \E role \in Roles, id \in 1..MaxExpenses : DeleteExpense(role, id)
  \/ \E role \in Roles : GetExpenses(role)
  \/ \E role \in Roles, id \in 1..MaxExpenses : GetExpense(role, id)
  \/ \E role \in Roles : GetSummary(role, <<>>, <<>>)
  \/ \E role \in Roles : GetRevenueByPeriod(role)
  \/ \E role \in Roles : GetAdminDashboard(role)

SpecFinRole == InitFinRole /\ [][NextFinRole]_vars

\* ------------------------------------------------------------- the browser
\* The auth store of the frontend and the page it shows. A null user or
\* token is <<>>, a value v is <<v>>.
Users == {[id |-> k, role |-> r] : k \in 1..MaxUsers, r \in Roles}
Tokens == {"", "t1", "t2", "t3", "t4"}
Routes == {"/login", "/staff/dashboard", "/staff/inventory", "/admin/finances"}

BackendFrame ==
  UNCHANGED <<items, customers, categories, rentals, payments, maintenances, nextId, now,
              reqs, response, initQty, expenses>>

\* !!get().token && !!get().user
isAuthenticated(auth) ==
  /\ auth.token # <<>> /\ auth.token[1] # ""
  /\ auth.user # <<>>

\* get().user?.role === 'ADMIN'
isAdmin(auth) == auth.user # <<>> /\ auth.user[1].role = "ADMIN"

isStaff(auth) == auth.user # <<>> /\ auth.user[1].role \in {"STAFF", "ADMIN"}

\* ProtectedRoute without its requireAdmin branch.
ProtectedRouteForAnyRole(auth, requireAdmin) ==
  IF ~isAuthenticated(auth) THEN "spinner" ELSE "children"

\* What ProtectedRoute returns: the spinner, the Access Denied panel, or its
\* children.
ProtectedRoute(auth, requireAdmin) ==
  IF ~isAuthenticated(auth) THEN "spinner"
  ELSE IF requireAdmin /\ ~isAdmin(auth) THEN "denied"
  ELSE "children"

\* <ProtectedRoute requireAdmin> on the admin pages, <ProtectedRoute> on the
\* staff pages.
RequireAdmin(route) == route = "/admin/finances"

Render(route, auth) ==
  IF route = "/login" THEN "login" ELSE ProtectedRoute(auth, RequireAdmin(route))

\* set(...) notifies the page, which renders again.
SetStore(auth) ==
  /\ authStore' = auth
  /\ page' = [page EXCEPT !.view = Render(page.route, auth)]
  /\ BackendFrame

SetAuth(user, token) == SetStore([user |-> <<user>>, token |-> <<token>>])

Logout == SetStore([user |-> <<>>, token |-> <<>>])

\* handleLogout of the layouts, which only a rendered layout offers.
HandleLogout ==
  /\ page.view = "children"
  /\ authStore' = [user |-> <<>>, token |-> <<>>]
  /\ page' = [route |-> "/login", view |-> "login"]
  /\ BackendFrame

\* The browser goes to a route.
Navigate(route) ==
  /\ page' = [route |-> route, view |-> Render(route, authStore)]
  /\ UNCHANGED authStore
  /\ BackendFrame

\* The effect of ProtectedRoute after a render.
RedirectEffect ==
  /\ page.route # "/login"
  /\ IF ~isAuthenticated(authStore)
     THEN page' = [route |-> "/login", view |-> "login"]
     ELSE IF RequireAdmin(page.route) /\ ~isAdmin(authStore)
     THEN page' = [route |-> "/staff/dashboard",
                   view |-> Render("/staff/dashboard", authStore)]
     ELSE UNCHANGED page
  /\ UNCHANGED authStore
  /\ BackendFrame

InitFront == InitWith({1}, {2})

NextFront ==
  \/ \E user \in Users, token \in Tokens : SetAuth(user, token)
  \/ Logout
  \/ HandleLogout
  \/ \E route \in Routes : Navigate(route)
  \/ RedirectEffect

SpecFront == InitFront /\ [][NextFront]_vars

\* ------------------------------------------------------------------- claims
AllIdle == \A p \in Procs : reqs[p] = Idle

OpenRentalsOn(i) ==
  {id \in RentalIds : rentals[id].itemId = i /\ rentals[id].returnDate = <<>>}

\* C1: in every reachable state, also when an updateRental overlaps a
\* recordPayment or deletePayment on the same rental, every rental has
\* amountDue + amountPaid = totalAmount.
C1_BalanceInvariant ==
  \A id \in RentalIds :
    rentals[id].amountDue + rentals[id].amountPaid = rentals[id].totalAmount

\* C2: when requests do not overlap, every rental's amountPaid is the sum of
\* the amounts of the Payment rows that reference it (0 when there is none).
C2_AmountPaidIsPaymentSum ==
  \A id \in RentalIds : rentals[id].amountPaid = SumAmounts(PaymentsOf(id))

\* C2 witness: two rentals exist, two payments were recorded and one of them
\* has just been deleted; rental 1 keeps the remaining one, of amount 2.
C2_Witness ==
  /\ Len(rentals) = 2
  /\ Cardinality(PaymentsOf(1)) = 1
  /\ nextId.payment = 3
  /\ Cardinality(payments) = 1
  /\ rentals[1].amountPaid = 2
  /\ response.endpoint = "DELETE /finances/payments/:id" /\ response.code = 200

\* C3: once overlapping recordPayment calls on a rental have inserted their
\* Payment rows (no payment was ever deleted, no request is in flight) and
\* the amounts together fit the rental's total, the rental's amountPaid is
\* the sum of the amounts.
C3_OverlappingPaymentsAdd ==
  (AllIdle /\ Cardinality(payments) = nextId.payment - 1)
    => \A id \in RentalIds :
         SumAmounts(PaymentsOf(id)) <= rentals[id].totalAmount
           => rentals[id].amountPaid = SumAmounts(PaymentsOf(id))

\* C7: no item's quantity is ever negative, also when two createRental
\* requests for the last unit overlap.
C7_QuantityNonNegative ==
  \A i \in DOMAIN items : items[i].quantity >= 0

\* C8: every item's quantity is its initial quantity minus the number of
\* rentals on it that have not been returned.
C8_QuantityTracksOpenRentals ==
  \A i \in DOMAIN items :
    items[i].quantity = initQty[i] - Cardinality(OpenRentalsOn(i))

\* C9: once a rental is COMPLETED or CANCELLED, no operation changes its status.
C9_TerminalStatusStays ==
  [][\A id \in RentalIds :
       rentals[id].status \in {"COMPLETED", "CANCELLED"}
         => rentals'[id].status = rentals[id].status]_vars

\* C10: a rental enters CANCELLED only from PENDING or ACTIVE, and enters
\* OVERDUE only from ACTIVE and only by the overdue sweep.
C10_EntryIntoCancelledAndOverdue ==
  [][\A id \in RentalIds :
       /\ (rentals'[id].status = "CANCELLED" /\ rentals[id].status # "CANCELLED")
            => rentals[id].status \in {"PENDING", "ACTIVE"}
       /\ (rentals'[id].status = "OVERDUE" /\ rentals[id].status # "OVERDUE")
            => /\ rentals[id].status = "ACTIVE"
               /\ response'.endpoint = "GET /rentals/status/overdue"]_vars

\* ------------------------------------------------- what a response carries
Sent(resp) == resp.code \in {200, 201}

\* The Rental records in a response body, wherever the endpoint puts them.
RentalRecordsIn(resp) ==
  IF ~Sent(resp) THEN {}
  ELSE IF resp.endpoint \in {"POST /rentals", "PUT /rentals/:id",
                             "PUT /rentals/:id/return", "GET /rentals/:id"}
    THEN {resp.body}
  ELSE IF resp.endpoint = "GET /rentals" THEN resp.body.rentals
  ELSE IF resp.endpoint \in {"GET /rentals/status/active", "GET /rentals/status/overdue",
                             "GET /customers/:id/rentals", "GET /dashboard/activity"}
    THEN resp.body
  ELSE IF resp.endpoint \in {"GET /customers/:id", "GET /items/:id"}
    THEN resp.body.rentals
  ELSE IF resp.endpoint \in {"POST /finances/payments", "DELETE /finances/payments/:id"}
    THEN {resp.body.rental}
  ELSE IF resp.endpoint = "GET /finances/payments"
    THEN {p.rental : p \in resp.body.payments}
  ELSE {}

\* The Maintenance records in a response body.
MaintenanceRecordsIn(resp) ==
  IF ~Sent(resp) THEN {}
  ELSE IF resp.endpoint \in {"POST /maintenance", "PUT /maintenance/:id",
                             "PUT /maintenance/:id/complete", "GET /maintenance/:id"}
    THEN {resp.body}
  ELSE IF resp.endpoint \in {"GET /maintenance", "GET /items/:id"}
    THEN resp.body.maintenances
  ELSE {}

\* The Item records in a response body: the items sent as such and the items
\* nested in a rental, a maintenance record or a category.
ItemRecordsIn(resp) ==
  {r.item : r \in {x \in RentalRecordsIn(resp) : "item" \in DOMAIN x}}
  \cup {m.item : m \in {x \in MaintenanceRecordsIn(resp) : "item" \in DOMAIN x}}
  \cup (IF ~Sent(resp) THEN {}
        ELSE IF resp.endpoint \in {"GET /items", "GET /categories/:id"}
          THEN resp.body.items
        ELSE IF resp.endpoint \in {"GET /items/:id", "PUT /items/:id"}
          THEN {resp.body}
        ELSE {})

RentalFinancialFields ==
  {"dailyRate", "numberOfDays", "subtotal", "deposit", "discount",
   "totalAmount", "amountPaid", "amountDue", "paymentStatus"}

\* C4: a response to a STAFF caller carries, on no Rental record, any of
\* dailyRate, numberOfDays, subtotal, deposit, discount, totalAmount,
\* amountPaid, amountDue, paymentStatus, and on no Maintenance record, cost -
\* whether the record is sent singly, in a list, or nested under a customer,
\* under an item or in the recent activity.
C4_StaffSeesNoFinancialField ==
  response.role = "STAFF" =>
    /\ \A r \in RentalRecordsIn(response) : DOMAIN r \cap RentalFinancialFields = {}
    /\ \A m \in MaintenanceRecordsIn(response) : "cost" \notin DOMAIN m

\* C5 as stated: no response to a STAFF caller carries an item's dailyRate,
\* on the items list, the single item, or an item nested in a rental, a
\* customer, a maintenance record or a category.
C5_StaffSeesNoItemRate ==
  response.role = "STAFF" =>
    \A item \in ItemRecordsIn(response) : "dailyRate" \notin DOMAIN item

\* C5: every Item record in a response to a STAFF caller - on the items list,
\* the single item, or nested in a rental, a customer, a maintenance record or
\* a category - carries the item's stored dailyRate: the redaction removes the
\* rental's own columns and leaves the nested item whole.
C5_StaffSeesItemRate ==
  response.role = "STAFF" =>
    \A item \in ItemRecordsIn(response) :
      "dailyRate" \in DOMAIN item /\ item.dailyRate = items[item.id].dailyRate

\* C5 witness: a STAFF caller reads a single rental after the item's rate was
\* changed to 1; the rental's own dailyRate is gone and the nested item's is
\* there.
C5_Witness ==
  /\ response.role = "STAFF" /\ response.endpoint = "GET /rentals/:id"
  /\ response.code = 200
  /\ "dailyRate" \notin DOMAIN response.body
  /\ response.body.item.dailyRate = 1

\* The fields C6 lists for the rental redaction.
RedactedRentalFields == RentalFinancialFields \cup {"payments"}

SameExcept(copy, record, fields) ==
  /\ DOMAIN copy = (DOMAIN record) \ fields
  /\ \A f \in DOMAIN copy : copy[f] = record[f]

C6_RentalRedaction ==
  \A id \in RentalIds :
    LET rental == WithCustomerItem(rentals[id]) @@ [payments |-> PaymentsOf(id)]
    IN /\ SameExcept(RentalView("STAFF", rental), rental, RedactedRentalFields)
       /\ RentalView("ADMIN", rental) = rental
       /\ RedactedRentalFields \subseteq DOMAIN RentalView("ADMIN", rental)

C6_MaintenanceRedaction ==
  \A m \in maintenances :
    /\ SameExcept(MaintenanceView("STAFF", WithItemOf(m)), WithItemOf(m), {"cost"})
    /\ MaintenanceView("ADMIN", WithItemOf(m)) = WithItemOf(m)

\* What GET /rentals/:id and GET /maintenance/:id have just sent, against the
\* rows they read.
C6_SingleReads ==
  /\ (response.endpoint = "GET /rentals/:id" /\ response.code = 200) =>
       LET stored == WithCustomerItem(rentals[response.body.id])
       IN IF response.role = "STAFF"
          THEN SameExcept(response.body, stored, RedactedRentalFields)
          ELSE response.body = stored @@ [payments |-> PaymentsOf(stored.id)]
  /\ (response.endpoint = "GET /maintenance/:id" /\ response.code = 200) =>
       \E m \in maintenances :
         IF response.role = "STAFF"
         THEN SameExcept(response.body, WithItemOf(m), {"cost"})
         ELSE response.body = WithItemOf(m)

\* C6: for every Rental-shaped record the rental redaction gives a STAFF
\* caller a copy without exactly dailyRate, numberOfDays, subtotal, deposit,
\* discount, totalAmount, amountPaid, amountDue, paymentStatus and payments,
\* every other field unchanged, and gives an ADMIN caller the record unchanged
\* with all those fields present; the maintenance redaction removes only
\* cost; and a read that redacts leaves the stored rows as they were.
C6_RedactionIsExact ==
  /\ [](C6_RentalRedaction /\ C6_MaintenanceRedaction /\ C6_SingleReads)
  /\ [][response'.endpoint \in {"GET /rentals", "GET /rentals/:id",
                                "GET /maintenance", "GET /maintenance/:id"}
          => UNCHANGED store]_vars

\* C6 witness: a STAFF caller has just read a single rental that has a
\* payment, while a maintenance record with a cost is on file.
C6_Witness ==
  /\ response.role = "STAFF" /\ response.endpoint = "GET /rentals/:id"
  /\ response.code = 200
  /\ PaymentsOf(response.body.id) # {}
  /\ \E m \in maintenances : m.cost > 0

\* -------------------------------------------------- steps of the handlers
\* A step that inserted a rental.
Created == Len(rentals') = Len(rentals) + 1

\* A step in which returnItem closed rental `id`.
Returned(id) ==
  /\ response'.endpoint = "PUT /rentals/:id/return" /\ response'.code = 200
  /\ response'.body.id = id
  /\ items' # items

\* C11: createRental succeeds on an AVAILABLE item with quantity q >= 1 and
\* then inserts a rental that is PENDING, UNPAID, with amountPaid 0, and sets
\* the item to RENTED with quantity q - 1 whatever is left; returnItem sets the
\* rental to COMPLETED with its returnDate, the item to AVAILABLE and one unit
\* more, which right after the creation is q again.
C11_CreateThenReturn ==
  /\ []((response.endpoint = "POST /rentals" /\ response.code = 400
         /\ response.body.error = "Item is not available for rental")
        => \E i \in DOMAIN items : items[i].status # "AVAILABLE" \/ items[i].quantity < 1)
  /\ [][/\ Created =>
             LET rental == rentals'[Len(rentals')]
                 i == rental.itemId
             IN /\ items[i].status = "AVAILABLE" /\ items[i].quantity >= 1
                /\ rental.status = "PENDING" /\ rental.paymentStatus = "UNPAID"
                /\ rental.amountPaid = 0 /\ rental.returnDate = <<>>
                /\ items'[i].status = "RENTED"
                /\ items'[i].quantity = items[i].quantity - 1
        /\ \A id \in RentalIds :
             Returned(id) =>
               LET i == rentals[id].itemId
               IN /\ rentals'[id].status = "COMPLETED"
                  /\ rentals'[id].returnDate = <<now>>
                  /\ items'[i].status = "AVAILABLE"
                  /\ items'[i].quantity = items[i].quantity + 1
                  /\ (response.endpoint = "POST /rentals" /\ response.code = 201
                      /\ response.body.id = id)
                       => items'[i].quantity = response.body.item.quantity
       ]_vars

\* C11 witness: of a stock of two, one unit was rented (the item went RENTED
\* with one unit left) and has just been returned: AVAILABLE, two units.
C11_Witness ==
  /\ response.endpoint = "PUT /rentals/:id/return" /\ response.code = 200
  /\ Len(rentals) = 1 /\ rentals[1].status = "COMPLETED" /\ rentals[1].returnDate # <<>>
  /\ initQty["i1"] = 2
  /\ items["i1"].status = "AVAILABLE" /\ items["i1"].quantity = 2

\* The rows of every table.
rows == <<items, customers, categories, rentals, payments, maintenances, expenses, authStore, page>>

\* C12: a createRental that fails - a missing field, endDate <= startDate, no
\* such item, item not AVAILABLE or out of stock, no such customer, or a
\* failure inside the transaction - leaves every row as it was; and a Rental
\* row is inserted only together with the decrement of its item, the item's
\* status and quantity changing in no other createRental step.
C12_CreateAllOrNothing ==
  [][/\ (response'.endpoint = "POST /rentals" /\ response'.code # 201)
          => UNCHANGED rows
     /\ Created =>
          LET i == rentals'[Len(rentals')].itemId
          IN /\ response'.endpoint = "POST /rentals" /\ response'.code = 201
             /\ items'[i].status = "RENTED"
             /\ items'[i].quantity = items[i].quantity - 1
     /\ (response'.endpoint = "POST /rentals" /\ items' # items) => Created
    ]_vars

\* C12 witness: a createRental has just failed inside its transaction (its
\* customer was deleted after the handler had found it); there is no rental
\* and the item is as it was stocked.
C12_Witness ==
  /\ response.endpoint = "POST /rentals" /\ response.code = 500
  /\ rentals = <<>>
  /\ "i1" \in DOMAIN items
  /\ items["i1"].quantity = initQty["i1"] /\ items["i1"].status = "AVAILABLE"
  /\ customers = <<>>

\* C13: a recordPayment that does not answer 201 leaves the rentals and the
\* payments as they were; one that succeeds was for an existing rental and an
\* amount that is positive and at most the rental's amountDue (so it fails
\* when the rental is absent, the amount <= 0 or above amountDue), and then
\* amountPaid has grown by the amount, amountDue = totalAmount - amountPaid,
\* and paymentStatus is PAID exactly when amountPaid has reached totalAmount,
\* PARTIAL when 0 < amountPaid < totalAmount; no other rental changes.
C13_RecordPayment ==
  [][response'.endpoint = "POST /finances/payments" =>
       IF response'.code # 201
       THEN UNCHANGED <<rentals, payments>>
       ELSE payments' # payments =>
         \E p \in payments' \ payments :
           LET id == p.rentalId
               before == rentals[id]
               after == rentals'[id]
           IN /\ payments' = payments \cup {p}
              /\ id \in RentalIds
              /\ p.amount > 0 /\ p.amount <= before.amountDue
              /\ after.amountPaid = before.amountPaid + p.amount
              /\ after.totalAmount = before.totalAmount
              /\ after.amountDue = after.totalAmount - after.amountPaid
              /\ (after.paymentStatus = "PAID") <=> (after.amountPaid = after.totalAmount)
              /\ (0 < after.amountPaid /\ after.amountPaid < after.totalAmount)
                   => after.paymentStatus = "PARTIAL"
              /\ after = [before EXCEPT !.amountPaid = after.amountPaid,
                                        !.amountDue = after.amountDue,
                                        !.paymentStatus = after.paymentStatus]
              /\ Len(rentals') = Len(rentals)
              /\ \A k \in RentalIds \ {id} : rentals'[k] = rentals[k]
    ]_vars

\* C13 witness: a second payment has just brought a rental from PARTIAL to
\* PAID.
C13_Witness ==
  /\ response.endpoint = "POST /finances/payments" /\ response.code = 201
  /\ Cardinality(PaymentsOf(1)) = 2
  /\ rentals[1].paymentStatus = "PAID"
  /\ rentals[1].amountPaid = rentals[1].totalAmount /\ rentals[1].amountDue = 0

\* C14: a deletePayment that follows at once the recordPayment that made the
\* payment puts the rental's amountPaid, amountDue and paymentStatus back to
\* what they were before the payment, and removes the Payment row.
C14_DeleteReversesRecord ==
  [][(/\ response.endpoint = "POST /finances/payments" /\ response.code = 201
      /\ response'.endpoint = "DELETE /finances/payments/:id" /\ response'.code = 200
      /\ response'.body.id = response.body.id)
     => LET before == response.body.rental
            after == rentals'[before.id]
        IN /\ after.amountPaid = before.amountPaid
           /\ after.amountDue = before.amountDue
           /\ after.paymentStatus = before.paymentStatus
           /\ PaymentById(response.body.id)' = {}
    ]_vars

\* C15: every rental's paymentStatus is the classification of its amounts:
\* PAID if amountPaid >= totalAmount, else PARTIAL if amountPaid > 0, else
\* UNPAID.
C15_PaymentStatusClassifies ==
  \A id \in RentalIds :
    rentals[id].paymentStatus =
      (IF rentals[id].amountPaid >= rentals[id].totalAmount THEN "PAID"
       ELSE IF rentals[id].amountPaid > 0 THEN "PARTIAL" ELSE "UNPAID")

\* C16: returnItem on a rental that is already COMPLETED is refused as a
\* Conflict (400 or 409), and a returnItem that is refused - the rental
\* COMPLETED or not there - leaves every row as it was: the rental's status
\* and returnDate, the item's status and quantity.
C16_ReturnOfCompletedRefused ==
  /\ []((/\ response.endpoint = "PUT /rentals/:id/return" /\ response.code # 200
         /\ response.body.error = "Rental already completed")
        => response.code \in {400, 409})
  /\ [][(response'.endpoint = "PUT /rentals/:id/return" /\ response'.code # 200)
          => UNCHANGED rows]_vars

\* C17: the overdue sweep turns to OVERDUE exactly the rentals that are ACTIVE
\* with endDate < now and changes no other rental, no other field and no
\* other row; after it no rental is ACTIVE with endDate < now, and the list it
\* returns is the set of the rentals whose status is OVERDUE.
C17_SweepIsExact ==
  [][(response'.endpoint = "GET /rentals/status/overdue" /\ now' = now) =>
       /\ Len(rentals') = Len(rentals)
       /\ \A k \in RentalIds :
            rentals'[k] = IF rentals[k].status = "ACTIVE" /\ rentals[k].endDate < now
                          THEN [rentals[k] EXCEPT !.status = "OVERDUE"]
                          ELSE rentals[k]
       /\ UNCHANGED <<items, customers, categories, payments, maintenances>>
       /\ \A k \in RentalIds :
            ~(rentals'[k].status = "ACTIVE" /\ rentals'[k].endDate < now)
       /\ {r.id : r \in response'.body}
            = {k \in RentalIds : rentals'[k].status = "OVERDUE"}
    ]_vars

\* C17 witness: the sweep has just run a tick after the end date of two
\* rentals and lists one of them, the other being PENDING.
C17_Witness ==
  /\ response.endpoint = "GET /rentals/status/overdue" /\ response.code = 200
  /\ now = 1 /\ Len(rentals) = 2
  /\ rentals[1].status = "OVERDUE" /\ rentals[1].endDate < now
  /\ rentals[2].status = "PENDING"
  /\ {r.id : r \in response.body} = {1}

\* C18: a second overdue sweep run right after a first, at the same now,
\* leaves every row as the first left it and returns the same rentals.
C18_SweepIdempotent ==
  [][(/\ response.endpoint = "GET /rentals/status/overdue"
      /\ response'.endpoint = "GET /rentals/status/overdue"
      /\ now' = now)
     => /\ UNCHANGED rows
        /\ {r.id : r \in response'.body} = {r.id : r \in response.body}
        /\ response'.role = response.role => response'.body = response.body
    ]_vars

\* C18 witness: a sweep has just listed a rental that is past its end date and
\* OVERDUE, the state the second sweep starts from and ends in.
C18_Witness ==
  /\ response.endpoint = "GET /rentals/status/overdue" /\ response.code = 200
  /\ Len(rentals) = 1 /\ rentals[1].status = "OVERDUE" /\ rentals[1].endDate < now
  /\ {r.id : r \in response.body} = {1}

\* Rentals in PENDING or ACTIVE of a customer, of an item.
PendingOrActiveOfCustomer(c) ==
  {k \in RentalIds : rentals[k].customerId = c /\ rentals[k].status \in {"PENDING", "ACTIVE"}}

PendingOrActiveOfItem(i) ==
  {k \in RentalIds : rentals[k].itemId = i /\ rentals[k].status \in {"PENDING", "ACTIVE"}}

\* C19: deleting a customer, or an item, that has a rental in PENDING or
\* ACTIVE is refused as a Conflict (400), and so is deleting a category that
\* has an item; a refused delete leaves every row as it was, and no step
\* removes or changes such a customer, item or category row.
C19_DeletionGuards ==
  [][/\ \A c \in RequestCustomerIds \ {""} :
          (response'.endpoint = "DELETE /customers/" \o c
           /\ PendingOrActiveOfCustomer(c) # {})
            => response'.code = 400 /\ UNCHANGED rows
     /\ \A i \in RequestItemIds :
          (response'.endpoint = "DELETE /items/" \o i /\ PendingOrActiveOfItem(i) # {})
            => response'.code = 400 /\ UNCHANGED rows
     /\ \A c \in RequestCategoryIds :
          (response'.endpoint = "DELETE /categories/" \o c
           /\ \E i \in DOMAIN items : items[i].categoryId = c)
            => response'.code = 400 /\ UNCHANGED rows
     /\ \A c \in DOMAIN customers :
          PendingOrActiveOfCustomer(c) # {}
            => c \in DOMAIN customers' /\ customers'[c] = customers[c]
     /\ \A i \in DOMAIN items :
          PendingOrActiveOfItem(i) # {} => i \in DOMAIN items'
     /\ \A c \in DOMAIN categories :
          (\E i \in DOMAIN items : items[i].categoryId = c)
            => c \in DOMAIN categories' /\ categories'[c] = categories[c]
    ]_vars

\* C19 witness: the delete of a customer whose only rental is PENDING has just
\* been refused; customer, rental, item and category are all there.
C19_Witness ==
  /\ response.endpoint = "DELETE /customers/c1" /\ response.code = 400
  /\ Len(rentals) = 1 /\ rentals[1].status = "PENDING" /\ rentals[1].customerId = "c1"
  /\ "c1" \in DOMAIN customers /\ "i1" \in DOMAIN items /\ "cat1" \in DOMAIN categories

\* C20: a rental as created has numberOfDays = the least whole number of days
\* that covers endDate - startDate (a part of a day counting as a day),
\* subtotal = the item's rate * numberOfDays, totalAmount = subtotal + deposit
\* - discount, amountDue = totalAmount and amountPaid = 0; rate 15 over six
\* days with deposit 50 and discount 10 gives 6, 90, 130, 130.
C20_CreationAmounts ==
  \A id \in RentalIds :
    LET r == rentals[id]
        span == r.endDate - r.startDate
    IN /\ span > 0
       /\ r.numberOfDays * DAY >= span /\ (r.numberOfDays - 1) * DAY < span
       /\ r.dailyRate = items[r.itemId].dailyRate
       /\ r.subtotal = r.dailyRate * r.numberOfDays
       /\ r.totalAmount = r.subtotal + r.deposit - r.discount
       /\ r.amountDue = r.totalAmount
       /\ r.amountPaid = 0
       /\ (r.dailyRate = 15 /\ span = 6 * DAY /\ r.deposit = 50 /\ r.discount = 10)
            => /\ r.numberOfDays = 6 /\ r.subtotal = 90
               /\ r.totalAmount = 130 /\ r.amountDue = 130

\* C20 witness: the documented example, and a rental of six days and a half
\* counted as seven days.
C20_Witness ==
  /\ Len(rentals) = 2
  /\ rentals[1].dailyRate = 15 /\ rentals[1].endDate - rentals[1].startDate = 6 * DAY
  /\ rentals[1].deposit = 50 /\ rentals[1].discount = 10 /\ rentals[1].totalAmount = 130
  /\ rentals[2].endDate - rentals[2].startDate = 6 * DAY + 1
  /\ rentals[2].numberOfDays = 7 /\ rentals[2].subtotal = 105

\* C21: an updateRental never changes dailyRate, deposit, discount, amountPaid
\* or paymentStatus of any rental; when it changes a date, numberOfDays,
\* subtotal, totalAmount and amountDue are recomputed from the new dates and
\* the rental's own dailyRate, deposit, discount and amountPaid; the dates it
\* leaves have endDate > startDate, a refusal (400 or 404) leaves every rental
\* unchanged, and with the dates unchanged the financial fields are unchanged.
C21_UpdateRentalRecomputes ==
  [][response'.endpoint = "PUT /rentals/:id" =>
       /\ Len(rentals') = Len(rentals)
       /\ response'.code # 200 => rentals' = rentals
       /\ \A k \in RentalIds :
            LET old == rentals[k]
                new == rentals'[k]
                fin == RentalFinancials(old.dailyRate, new.startDate, new.endDate,
                                        old.deposit, old.discount, old.amountPaid)
                dated == new.startDate # old.startDate \/ new.endDate # old.endDate
            IN /\ new.dailyRate = old.dailyRate /\ new.deposit = old.deposit
               /\ new.discount = old.discount /\ new.amountPaid = old.amountPaid
               /\ new.paymentStatus = old.paymentStatus
               /\ new.endDate > new.startDate
               /\ dated => /\ new.numberOfDays = fin.numberOfDays
                           /\ new.subtotal = fin.subtotal
                           /\ new.totalAmount = fin.totalAmount
                           /\ new.amountDue = fin.amountDue
               /\ ~dated => /\ new.numberOfDays = old.numberOfDays
                            /\ new.subtotal = old.subtotal
                            /\ new.totalAmount = old.totalAmount
                            /\ new.amountDue = old.amountDue
    ]_vars

\* C21 witness: a rental created for one day at rate 2 with deposit 1, then
\* paid 2, has just had its end moved a day and a half after its start: two
\* days, subtotal 4, total 5, due 3, and the payment status it had.
C21_Witness ==
  /\ response.endpoint = "PUT /rentals/:id" /\ response.code = 200
  /\ Len(rentals) >= 1
  /\ rentals[1].dailyRate = 2 /\ rentals[1].deposit = 1 /\ rentals[1].amountPaid = 2
  /\ rentals[1].startDate = 0 /\ rentals[1].endDate = 3
  /\ rentals[1].numberOfDays = 2 /\ rentals[1].subtotal = 4
  /\ rentals[1].totalAmount = 5 /\ rentals[1].amountDue = 3
  /\ rentals[1].paymentStatus = "PARTIAL"

\* C22: an item update changes no rental, so the dailyRate, subtotal,
\* totalAmount and amountDue of every existing rental stay as they were; and
\* an updateRental that changes a date computes the subtotal from the rental's
\* own dailyRate, which it keeps, whatever the item's dailyRate is by then.
C22_RateIsSnapshot ==
  /\ [][response'.endpoint = "PUT /items/:id" => rentals' = rentals]_vars
  /\ [][response'.endpoint = "PUT /rentals/:id" =>
          \A k \in RentalIds :
            (rentals'[k].startDate # rentals[k].startDate
               \/ rentals'[k].endDate # rentals[k].endDate)
            => /\ rentals'[k].dailyRate = rentals[k].dailyRate
               /\ rentals'[k].subtotal = rentals[k].dailyRate * rentals'[k].numberOfDays
               /\ rentals'[k].totalAmount
                    = rentals'[k].subtotal + rentals[k].deposit - rentals[k].discount
               /\ rentals'[k].amountDue = rentals'[k].totalAmount - rentals[k].amountPaid
       ]_vars

\* C22 witness: a rental taken at rate 2, whose item has since gone to rate 3,
\* has just been extended to two days and costs 4, not 6.
C22_Witness ==
  /\ response.endpoint = "PUT /rentals/:id" /\ response.code = 200
  /\ Len(rentals) >= 1
  /\ rentals[1].dailyRate = 2 /\ items[rentals[1].itemId].dailyRate = 3
  /\ rentals[1].numberOfDays = 2 /\ rentals[1].subtotal = 4

\* C23: whatever the request, a step that stores a maintenance record with a
\* cost other than 0, or changes the cost of a stored record, answers an ADMIN
\* caller: a record created by STAFF has cost 0 and an update by STAFF leaves
\* the stored cost as it was.
C23_OnlyAdminSetsCost ==
  [][\A new \in maintenances' :
       LET old == {m \in maintenances : m.id = new.id}
       IN /\ (old = {} /\ new.cost # 0) => response'.role = "ADMIN"
          /\ \A m \in old : m.cost # new.cost => response'.role = "ADMIN"
    ]_vars

\* C23 witness: a record an admin created with cost 2 has just been updated
\* by a staff user, who moved it to IN_PROGRESS, and still costs 2.
C23_Witness ==
  /\ response.endpoint = "PUT /maintenance/:id" /\ response.code = 200
  /\ response.role = "STAFF"
  /\ \E m \in maintenances : m.cost = 2 /\ m.status = "IN_PROGRESS"

\* C24: a successful createMaintenance adds one record, PENDING, for an
\* existing item and sets that item's status to MAINTENANCE; a successful
\* completion takes a record that was not COMPLETED to COMPLETED with its
\* endDate set and sets the item's status to AVAILABLE; both keep the item's
\* quantity and every rental, whatever the item's quantity and status were; a
\* refused creation or completion changes no row, and a completion of an
\* absent or COMPLETED record is refused.
C24_MaintenanceDrivesItemStatus ==
  /\ [][response'.endpoint = "POST /maintenance" =>
          IF response'.code = 201
          THEN \E m \in maintenances' \ maintenances :
                 /\ maintenances' = maintenances \cup {m}
                 /\ m.id \notin {x.id : x \in maintenances}
                 /\ m.status = "PENDING"
                 /\ m.itemId \in DOMAIN items
                 /\ items' = [items EXCEPT ![m.itemId].status = "MAINTENANCE"]
                 /\ UNCHANGED <<customers, categories, rentals, payments>>
          ELSE UNCHANGED rows
       ]_vars
  /\ [][response'.endpoint = "PUT /maintenance/:id/complete" =>
          IF response'.code = 200
          THEN \E existing \in maintenances :
                 /\ existing.status # "COMPLETED"
                 /\ \E updated \in maintenances' :
                      /\ updated = [existing EXCEPT !.status = "COMPLETED",
                                                    !.endDate = updated.endDate]
                      /\ updated.endDate # <<>>
                      /\ maintenances' = (maintenances \ {existing}) \cup {updated}
                 /\ items' = [items EXCEPT ![existing.itemId].status = "AVAILABLE"]
                 /\ UNCHANGED <<customers, categories, rentals, payments>>
          ELSE UNCHANGED rows
       ]_vars
  /\ [][(/\ response'.endpoint = "PUT /maintenance/:id/complete"
         /\ \A m \in maintenances : m.status = "COMPLETED")
        => response'.code # 200]_vars

\* C24 witness: the item's only unit is out on a PENDING rental; a maintenance
\* record was opened on it and has just been completed, so the item is
\* AVAILABLE with quantity 0 while the rental is still in progress.
C24_Witness ==
  /\ response.endpoint = "PUT /maintenance/:id/complete" /\ response.code = 200
  /\ Len(rentals) = 1 /\ rentals[1].status = "PENDING"
  /\ items[rentals[1].itemId].status = "AVAILABLE"
  /\ items[rentals[1].itemId].quantity = 0
  /\ \E m \in maintenances :
       m.itemId = rentals[1].itemId /\ m.status = "COMPLETED" /\ m.endDate # <<>>

\* What a summary over [startDate, endDate] has to report: the payments and
\* the expenses dated in the period, and what is owed on the rentals that are
\* UNPAID or PARTIAL whenever they were made.
RevenueIn(startDate, endDate) ==
  SumAmounts({p \in payments :
                /\ (startDate = <<>> \/ startDate[1] <= p.paymentDate)
                /\ (endDate = <<>> \/ p.paymentDate <= endDate[1])})

ExpensesIn(startDate, endDate) ==
  SumAmounts({e \in expenses :
                /\ (startDate = <<>> \/ startDate[1] <= e.expenseDate)
                /\ (endDate = <<>> \/ e.expenseDate <= endDate[1])})

Owed ==
  SumAmountDue({k \in RentalIds : rentals[k].paymentStatus = "UNPAID"})
    + SumAmountDue({k \in RentalIds : rentals[k].paymentStatus = "PARTIAL"})

SummaryTotals(body, startDate, endDate) ==
  /\ body.totalRevenue = RevenueIn(startDate, endDate)
  /\ body.totalExpenses = ExpensesIn(startDate, endDate)
  /\ body.netProfit = body.totalRevenue - body.totalExpenses
  /\ body.outstandingPayments = Owed
  /\ body.totalRevenue = 0 => body.profitMargin.hundredths = 0

\* C25 as stated: the summary changes no row and reports the totals of the
\* period, and its profitMargin is netProfit / totalRevenue * 100 exactly
\* (0 without revenue).
C25_SummaryMarginExact ==
  [][\A period \in FinPeriods :
       (response'.endpoint = SummaryPath(period[1], period[2]) /\ response'.code = 200)
       => /\ UNCHANGED rows
          /\ SummaryTotals(response'.body, period[1], period[2])
          /\ response'.body.totalRevenue > 0
               => response'.body.profitMargin.hundredths * response'.body.totalRevenue
                    = response'.body.netProfit * 10000
    ]_vars

\* C25: the summary changes no row and reports the totals of the period, and
\* its profitMargin is netProfit / totalRevenue * 100 rounded to the nearest
\* hundredth and written with two decimals (the number 0 without revenue).
C25_SummaryMarginRounded ==
  [][\A period \in FinPeriods :
       (response'.endpoint = SummaryPath(period[1], period[2]) /\ response'.code = 200)
       => /\ UNCHANGED rows
          /\ SummaryTotals(response'.body, period[1], period[2])
          /\ response'.body.profitMargin.fixed = (response'.body.totalRevenue > 0)
          /\ response'.body.totalRevenue > 0
               => LET off == response'.body.profitMargin.hundredths
                               * response'.body.totalRevenue
                             - response'.body.netProfit * 10000
                  IN 2 * off <= response'.body.totalRevenue
                     /\ 0 - 2 * off <= response'.body.totalRevenue
    ]_vars

\* C25 witness: a summary of all time after payments of 1 and 2 and an
\* expense of 1: revenue 3, profit 2, margin 66.67, and 1 still owed on the
\* rental of 4.
C25_Witness ==
  /\ response.endpoint = SummaryPath(<<>>, <<>>) /\ response.code = 200
  /\ Cardinality(payments) = 2 /\ Cardinality(expenses) = 1
  /\ response.body.totalRevenue = 3 /\ response.body.totalExpenses = 1
  /\ response.body.netProfit = 2 /\ response.body.profitMargin.hundredths = 6667
  /\ response.body.outstandingPayments = 1

\* C26: the admin dashboard's monthlyRevenue and monthlyExpenses are the sums
\* of the payments and of the expenses dated from the first instant of the
\* month of now through its last instant, and netProfit is their difference.
C26_DashboardCoversMonth ==
  [][(/\ response'.endpoint = "GET /dashboard/admin" /\ response'.code = 200
      /\ now' = now)
     => /\ response'.body.monthlyRevenue
             = RevenueIn(<<FirstDayOfMonth(now)>>, <<EndOfMonth(now)>>)
        /\ response'.body.monthlyExpenses
             = ExpensesIn(<<FirstDayOfMonth(now)>>, <<EndOfMonth(now)>>)
        /\ response'.body.netProfit
             = response'.body.monthlyRevenue - response'.body.monthlyExpenses
    ]_vars

\* The finance endpoints and the admin dashboard.
FinanceEndpoints ==
  {"GET /finances/payments", "GET /finances/payments/:id", "POST /finances/payments",
   "DELETE /finances/payments/:id", "GET /finances/expenses",
   "GET /finances/expenses/:id", "POST /finances/expenses", "PUT /finances/expenses/:id",
   "DELETE /finances/expenses/:id", SummaryPath(<<>>, <<>>),
   "GET /finances/revenue/period", "GET /dashboard/admin"}

\* C27: a STAFF request to a finance endpoint or to the admin dashboard is
\* answered 403 with nothing but the error and changes no row; and no STAFF
\* request to any endpoint adds, removes or changes a Payment or an Expense
\* or changes the amountPaid or paymentStatus of a rental.
C27_StaffKeptOutOfFinances ==
  /\ [][(response'.role = "STAFF" /\ response'.endpoint \in FinanceEndpoints)
        => /\ response'.code = 403
           /\ response'.body = ErrorBody("Admin access required")
           /\ UNCHANGED rows
       ]_vars
  /\ [][response'.role = "STAFF"
        => /\ payments' = payments
           /\ expenses' = expenses
           /\ \A k \in RentalIds :
                /\ rentals'[k].amountPaid = rentals[k].amountPaid
                /\ rentals'[k].paymentStatus = rentals[k].paymentStatus
       ]_vars

\* C27 witness: a staff user has just been refused a payment on a rental that
\* owes its whole amount, next to a payment and an expense an admin recorded.
C27_Witness ==
  /\ response.endpoint = "POST /finances/payments" /\ response.role = "STAFF"
  /\ response.code = 403
  /\ Len(rentals) = 2 /\ rentals[2].amountDue = 2 /\ rentals[2].paymentStatus = "UNPAID"
  /\ Cardinality(payments) = 1 /\ Cardinality(expenses) = 1

\* C28: whatever the store holds, a createRental that names a customer or an
\* item that is absent is answered 404, also when its endDate <= startDate or
\* when the item is not available; and one that names a customer and an item
\* that exist, the item not being available, is answered with a Conflict
\* status.
C28_NotFoundComesFirst ==
  \A c \in RequestCustomerIds \ {""}, i \in RequestItemIds, span \in Spans :
    LET check == CreateRentalCheck(c, i, span[1], span[2])
    IN /\ (c \notin DOMAIN customers \/ i \notin DOMAIN items) => check[1] = 404
       /\ (/\ c \in DOMAIN customers /\ i \in DOMAIN items
           /\ (items[i].status # "AVAILABLE" \/ items[i].quantity < 1)
           /\ span[2] > span[1])
          => check[1] \in {400, 409}

\* C29: no business-rule failure is answered 500: a deletePayment, a
\* returnItem or a completion that finds no such payment, rental or
\* maintenance record answers 404, and a returnItem of a COMPLETED rental or a
\* completion of a COMPLETED record answers a Conflict status (400 or 409).
C29_BusinessFailuresClassified ==
  /\ (response.endpoint \in {"DELETE /finances/payments/:id", "PUT /rentals/:id/return",
                             "PUT /maintenance/:id/complete"}
        /\ response.code \notin {200, 403})
     => /\ response.code # 500
        /\ response.body.error \in {"Payment not found", "Rental not found",
                                    "Maintenance record not found"}
             => response.code = 404
        /\ response.body.error \in {"Rental already completed",
                                    "Maintenance already completed"}
             => response.code \in {400, 409}

\* C30: overlapping returnItem requests for one rental are serialized: a
\* return succeeds, and adds a unit to the item, only for a rental that is not
\* COMPLETED when its transaction writes, so that the quantity is incremented
\* once per rental and the later request is refused.
C30_OverlappingReturnsSerialized ==
  [][(/\ response'.endpoint = "PUT /rentals/:id/return" /\ response'.code = 200
      /\ items' # items)
     => rentals[response'.body.id].status # "COMPLETED"
    ]_vars

\* C31: the page shows the children of a ProtectedRoute only while the auth
\* store holds a user and a token, and on a requireAdmin route only while
\* that user is an ADMIN; with user and token both null isAuthenticated,
\* isAdmin and isStaff are false and no children are shown; and isStaff is
\* true for a STAFF and for an ADMIN user.
C31_RouteProtection ==
  /\ page.view = "children"
     => /\ authStore.user # <<>> /\ authStore.token # <<>>
        /\ page.route = "/admin/finances" => authStore.user[1].role = "ADMIN"
  /\ (authStore.user = <<>> /\ authStore.token = <<>>)
     => /\ ~isAuthenticated(authStore) /\ ~isAdmin(authStore) /\ ~isStaff(authStore)
        /\ page.view # "children"
  /\ \A r \in Roles :
       (authStore.user # <<>> /\ authStore.user[1].role = r) => isStaff(authStore)

\* C31 witness: a STAFF user holding a token is on the admin finances page
\* and is shown Access Denied.
C31_Witness ==
  /\ authStore.user # <<>> /\ authStore.user[1].role = "STAFF"
  /\ authStore.token = <<"t1">>
  /\ page = [route |-> "/admin/finances", view |-> "denied"]

\* C32: a rental is COMPLETED exactly when its returnDate is set.
C32_CompletedIffReturned ==
  \A id \in RentalIds :
    (rentals[id].status = "COMPLETED") <=> (rentals[id].returnDate # <<>>)

\* C33: every rental has amountDue >= 0 and amountPaid <= totalAmount.
C33_NothingOverpaid ==
  \A id \in RentalIds :
    rentals[id].amountDue >= 0 /\ rentals[id].amountPaid <= rentals[id].totalAmount

\* C34: an item with a maintenance record that is not COMPLETED has the
\* status MAINTENANCE.
C34_OpenMaintenanceHoldsItem ==
  \A m \in maintenances :
    (m.status # "COMPLETED" /\ m.itemId \in DOMAIN items)
      => items[m.itemId].status = "MAINTENANCE"

\* C35: an updateRental, whatever status it writes, leaves every item as it
\* was: status and quantity.
C35_UpdateRentalKeepsItems ==
  [][response'.endpoint = "PUT /rentals/:id" => items' = items]_vars

\* C35 witness: the only rental has just been cancelled by an update, and its
\* item is still RENTED with the unit taken.
C35_Witness ==
  /\ response.endpoint = "PUT /rentals/:id" /\ response.code = 200
  /\ Len(rentals) = 1 /\ rentals[1].status = "CANCELLED"
  /\ items[rentals[1].itemId].status = "RENTED"
  /\ items[rentals[1].itemId].quantity = initQty[rentals[1].itemId] - 1

\* C36: every rental names a customer and an item that exist, every payment a
\* rental that exists, every maintenance record an item that exists; and a
\* delete never removes a customer or an item that a rental of any status, or
\* a maintenance record, still names.
C36_ReferentialIntegrity ==
  /\ [](/\ \A k \in RentalIds : /\ rentals[k].customerId \in DOMAIN customers
                                /\ rentals[k].itemId \in DOMAIN items
        /\ \A p \in payments : p.rentalId \in RentalIds
        /\ \A m \in maintenances : m.itemId \in DOMAIN items)
  /\ [][/\ \A c \in DOMAIN customers :
             (\E k \in RentalIds : rentals[k].customerId = c) => c \in DOMAIN customers'
        /\ \A i \in DOMAIN items :
             (\E k \in RentalIds : rentals[k].itemId = i) => i \in DOMAIN items'
       ]_vars

\* C36 witness: the delete of a customer whose only rental is COMPLETED and
\* paid has just failed, and the customer is still there.
C36_Witness ==
  /\ response.endpoint = "DELETE /customers/c1" /\ response.code = 500
  /\ Len(rentals) = 1 /\ rentals[1].status = "COMPLETED" /\ rentals[1].customerId = "c1"
  /\ "c1" \in DOMAIN customers
  /\ \E p \in payments : p.rentalId = 1

====
